---- MODULE Spec2Model ----
(***************************************************************************)
(* Repository-Mapper: the reference graph (graph/model.py), the scanner    *)
(* (scanner/discovery.py, parser.py, resolver.py, builder.py), the tree    *)
(* renderer (exporters/ascii_exporter.py) and the command line (cli.py).   *)
(*                                                                         *)
(* A Python str is a sequence of one-character strings; a Path is a        *)
(* sequence of components, each component a str.  A Python dict is a       *)
(* sequence of [k, v] entries in insertion order, a Python set a set.      *)
(***************************************************************************)
EXTENDS Integers, Sequences, FiniteSets, TLC

VARIABLES
    g,          \* the ReferenceGraph under construction / handed to the exporters
    ops,        \* number of add_* calls made on g through the graph interface
    pc,         \* position of the running function (build_graph, main, to_ascii)
    fs,         \* the repository on disk: files (with their decoded documents), options
    todo,       \* build_graph: what iter_files has still to yield
    scanned,    \* build_graph: the files already handled, with what was extracted
    cli,        \* main: the parsed arguments and the environment's answers
    status,     \* main: the value returned (or "uncaught" for a propagated exception)
    out         \* to_ascii: the rendered lines

vars == <<g, ops, pc, fs, todo, scanned, cli, status, out>>

----------------------------------------------------------------------------
(* Characters and strings *)

\* the code points of the characters of the model's strings
CodePoints ==
    "\t" :> 9 @@ "\n" :> 10 @@ " " :> 32 @@ "!" :> 33 @@ "\"" :> 34 @@ "#" :> 35 @@
    "$" :> 36 @@ "%" :> 37 @@ "&" :> 38 @@ "'" :> 39 @@ "(" :> 40 @@ ")" :> 41 @@
    "*" :> 42 @@ "+" :> 43 @@ "," :> 44 @@ "-" :> 45 @@ "." :> 46 @@ "/" :> 47 @@
    "0" :> 48 @@ "1" :> 49 @@ "2" :> 50 @@ "3" :> 51 @@ "4" :> 52 @@ "5" :> 53 @@
    "6" :> 54 @@ "7" :> 55 @@ "8" :> 56 @@ "9" :> 57 @@ ":" :> 58 @@ ";" :> 59 @@
    "<" :> 60 @@ "=" :> 61 @@ ">" :> 62 @@ "?" :> 63 @@ "@" :> 64 @@ "A" :> 65 @@
    "B" :> 66 @@ "C" :> 67 @@ "D" :> 68 @@ "E" :> 69 @@ "F" :> 70 @@ "G" :> 71 @@
    "H" :> 72 @@ "I" :> 73 @@ "J" :> 74 @@ "K" :> 75 @@ "L" :> 76 @@ "M" :> 77 @@
    "N" :> 78 @@ "O" :> 79 @@ "P" :> 80 @@ "Q" :> 81 @@ "R" :> 82 @@ "S" :> 83 @@
    "T" :> 84 @@ "U" :> 85 @@ "V" :> 86 @@ "W" :> 87 @@ "X" :> 88 @@ "Y" :> 89 @@
    "Z" :> 90 @@ "[" :> 91 @@ "\\" :> 92 @@ "]" :> 93 @@ "^" :> 94 @@ "_" :> 95 @@
    "a" :> 97 @@ "b" :> 98 @@ "c" :> 99 @@ "d" :> 100 @@ "e" :> 101 @@ "f" :> 102 @@
    "g" :> 103 @@ "h" :> 104 @@ "i" :> 105 @@ "j" :> 106 @@ "k" :> 107 @@ "l" :> 108 @@
    "m" :> 109 @@ "n" :> 110 @@ "o" :> 111 @@ "p" :> 112 @@ "q" :> 113 @@ "r" :> 114 @@
    "s" :> 115 @@ "t" :> 116 @@ "u" :> 117 @@ "v" :> 118 @@ "w" :> 119 @@ "x" :> 120 @@
    "y" :> 121 @@ "z" :> 122 @@ "{" :> 123 @@ "|" :> 124 @@ "}" :> 125 @@ "~" :> 126

\* ord(c)
Ord(c) == CodePoints[c]

LowerChar(c) ==
    CASE c = "A" -> "a"
      [] c = "B" -> "b"
      [] c = "C" -> "c"
      [] c = "D" -> "d"
      [] c = "E" -> "e"
      [] c = "F" -> "f"
      [] c = "G" -> "g"
      [] c = "H" -> "h"
      [] c = "I" -> "i"
      [] c = "J" -> "j"
      [] c = "K" -> "k"
      [] c = "L" -> "l"
      [] c = "M" -> "m"
      [] c = "N" -> "n"
      [] c = "O" -> "o"
      [] c = "P" -> "p"
      [] c = "Q" -> "q"
      [] c = "R" -> "r"
      [] c = "S" -> "s"
      [] c = "T" -> "t"
      [] c = "U" -> "u"
      [] c = "V" -> "v"
      [] c = "W" -> "w"
      [] c = "X" -> "x"
      [] c = "Y" -> "y"
      [] c = "Z" -> "z"
      [] OTHER -> c

\* str.lower()
Lower(s) == [i \in 1..Len(s) |-> LowerChar(s[i])]

\* Python's < on str: code point order, a proper prefix is smaller
RECURSIVE StrLessFrom(_, _, _)
StrLessFrom(a, b, i) ==
    IF i > Len(a) THEN i <= Len(b)
    ELSE IF i > Len(b) THEN FALSE
    ELSE IF a[i] = b[i] THEN StrLessFrom(a, b, i + 1)
    ELSE Ord(a[i]) < Ord(b[i])

StrLess(a, b) == StrLessFrom(a, b, 1)

\* pathlib's < on PurePosixPath: the lists of components are compared
RECURSIVE PathLessFrom(_, _, _)
PathLessFrom(p, q, i) ==
    IF i > Len(p) THEN i <= Len(q)
    ELSE IF i > Len(q) THEN FALSE
    ELSE IF p[i] = q[i] THEN PathLessFrom(p, q, i + 1)
    ELSE StrLess(p[i], q[i])

PathLess(p, q) == PathLessFrom(p, q, 1)

\* sorted(set of str)
RECURSIVE SortedStrs(_)
SortedStrs(S) ==
    IF S = {} THEN <<>>
    ELSE LET m == CHOOSE x \in S : \A y \in S : ~StrLess(y, x)
         IN  <<m>> \o SortedStrs(S \ {m})

\* sorted(set of Path)
RECURSIVE SortedPaths(_)
SortedPaths(S) ==
    IF S = {} THEN <<>>
    ELSE LET m == CHOOSE x \in S : \A y \in S : ~PathLess(y, x)
         IN  <<m>> \o SortedPaths(S \ {m})

----------------------------------------------------------------------------
(* graph/model.py: ReferenceGraph *)

\* dict helpers: `source not in d`, d.get(source, set()), d[source].add(x)
DictKeys(d) == {d[i].k : i \in DOMAIN d}

DictGet(d, key) ==
    IF key \in DictKeys(d)
    THEN (CHOOSE e \in {d[i] : i \in DOMAIN d} : e.k = key).v
    ELSE {}

DictAdd(d, key, x) ==
    IF key \in DictKeys(d)
    THEN [i \in DOMAIN d |-> IF d[i].k = key THEN [k |-> key, v |-> d[i].v \cup {x}] ELSE d[i]]
    ELSE Append(d, [k |-> key, v |-> {x}])

\* ReferenceGraph.__init__
EmptyGraph ==
    [nodes |-> {}, edges |-> <<>>, missing |-> <<>>, remote |-> <<>>, templates |-> <<>>]

add_node(G, node) == [G EXCEPT !.nodes = @ \cup {node}]

\* the slip: the target is not added to the node set
add_edge_notarget(G, source, target) ==
    [G EXCEPT !.nodes = @ \cup {source},
              !.edges = DictAdd(@, source, target)]

add_edge(G, source, target) ==
    [G EXCEPT !.nodes = @ \cup {source, target},
              !.edges = DictAdd(@, source, target)]

\* the slip: the candidate is recorded as a template reference as well
add_missing_and_template(G, source, candidate) ==
    [G EXCEPT !.nodes = @ \cup {source},
              !.missing = DictAdd(@, source, candidate),
              !.templates = DictAdd(@, source, candidate)]

add_missing(G, source, candidate) ==
    [G EXCEPT !.nodes = @ \cup {source},
              !.missing = DictAdd(@, source, candidate)]

add_remote(G, source, url) ==
    [G EXCEPT !.nodes = @ \cup {source},
              !.remote = DictAdd(@, source, url)]

add_template(G, source, candidate) ==
    [G EXCEPT !.nodes = @ \cup {source},
              !.templates = DictAdd(@, source, candidate)]

get_targets(G, source) == DictGet(G.edges, source)
get_missing(G, source) == DictGet(G.missing, source)
get_remote(G, source) == DictGet(G.remote, source)
get_templates(G, source) == DictGet(G.templates, source)

\* the pairs a dict-of-sets iterator yields: keys in insertion order, values sorted
RECURSIVE IterPaths(_)
IterPaths(d) ==
    IF d = <<>> THEN <<>>
    ELSE LET vs == SortedPaths(d[1].v)
         IN  [i \in 1..Len(vs) |-> <<d[1].k, vs[i]>>] \o IterPaths(Tail(d))

RECURSIVE IterStrs(_)
IterStrs(d) ==
    IF d = <<>> THEN <<>>
    ELSE LET vs == SortedStrs(d[1].v)
         IN  [i \in 1..Len(vs) |-> <<d[1].k, vs[i]>>] \o IterStrs(Tail(d))

iter_edges(G) == IterPaths(G.edges)
iter_missing(G) == IterStrs(G.missing)
iter_remote(G) == IterStrs(G.remote)
iter_templates(G) == IterStrs(G.templates)

\* the resolved edges as a set of <<source, target>> pairs
PairsOf(d) == UNION {{<<d[i].k, x>> : x \in d[i].v} : i \in DOMAIN d}
EdgePairs(G) == PairsOf(G.edges)

\* the slip: the targets of the edges are left out
get_connected_nodes_no_targets(G) ==
    {G.edges[i].k : i \in {j \in DOMAIN G.edges : G.edges[j].v # {}}}
    \cup {G.missing[i].k : i \in {j \in DOMAIN G.missing : G.missing[j].v # {}}}
    \cup {G.remote[i].k : i \in {j \in DOMAIN G.remote : G.remote[j].v # {}}}
    \cup {G.templates[i].k : i \in {j \in DOMAIN G.templates : G.templates[j].v # {}}}

\* ReferenceGraph.get_connected_nodes
get_connected_nodes(G) ==
    {G.edges[i].k : i \in {j \in DOMAIN G.edges : G.edges[j].v # {}}}
    \cup UNION {G.edges[i].v : i \in DOMAIN G.edges}
    \cup {G.missing[i].k : i \in {j \in DOMAIN G.missing : G.missing[j].v # {}}}
    \cup {G.remote[i].k : i \in {j \in DOMAIN G.remote : G.remote[j].v # {}}}
    \cup {G.templates[i].k : i \in {j \in DOMAIN G.templates : G.templates[j].v # {}}}


----------------------------------------------------------------------------
(* String operations used by the scanner *)

StartsWith(s, p) == Len(p) <= Len(s) /\ SubSeq(s, 1, Len(p)) = p
EndsWith(s, p) == Len(p) <= Len(s) /\ SubSeq(s, Len(s) - Len(p) + 1, Len(s)) = p

\* `p in s`
Contains(s, p) ==
    \E i \in 1..(Len(s) - Len(p) + 1) : SubSeq(s, i, i + Len(p) - 1) = p

\* str.replace(a, b) for single characters
ReplaceChar(s, a, b) == [i \in 1..Len(s) |-> IF s[i] = a THEN b ELSE s[i]]

\* the characters str.strip() and str.split() treat as whitespace
IsSpace(c) == c \in {" ", "\t", "\n"}

\* regular expression class \w
IsWordChar(c) ==
    \/ Ord(c) >= 48 /\ Ord(c) <= 57
    \/ Ord(c) >= 65 /\ Ord(c) <= 90
    \/ Ord(c) >= 97 /\ Ord(c) <= 122
    \/ c = "_"

\* s.lstrip(chars), s.rstrip(chars), s.strip(chars) with the stripped characters as a predicate
RECURSIVE LStrip(_, _)
LStrip(s, cs) == IF s # <<>> /\ s[1] \in cs THEN LStrip(Tail(s), cs) ELSE s

RECURSIVE RStrip(_, _)
RStrip(s, cs) ==
    IF s # <<>> /\ s[Len(s)] \in cs THEN RStrip(SubSeq(s, 1, Len(s) - 1), cs) ELSE s

Strip(s, cs) == RStrip(LStrip(s, cs), cs)

Whitespace == {" ", "\t", "\n"}

\* s.split(sep): the pieces between occurrences of the one-character separator
RECURSIVE SplitAt(_, _, _)
SplitAt(s, sep, cur) ==
    IF s = <<>> THEN <<cur>>
    ELSE IF s[1] \in sep THEN <<cur>> \o SplitAt(Tail(s), sep, <<>>)
    ELSE SplitAt(Tail(s), sep, Append(cur, s[1]))

Split(s, sep) == SplitAt(s, sep, <<>>)

\* s.split(): on runs of whitespace, no empty pieces
SplitWords(s) == SelectSeq(Split(s, Whitespace), LAMBDA w : w # <<>>)

----------------------------------------------------------------------------
(* scanner/parser.py *)

PATH_KEY_HINTS ==
    { <<"p", "a", "t", "h">>, <<"f", "i", "l", "e">>, <<"f", "i", "l", "e", "p", "a", "t", "h">>,
      <<"f", "i", "l", "e", "n", "a", "m", "e">>, <<"i", "m", "p", "o", "r", "t">>, <<"i", "n", "c", "l", "u", "d", "e">>,
      <<"s", "o", "u", "r", "c", "e">>, <<"s", "r", "c">>, <<"c", "o", "n", "f", "i", "g">>,
      <<"s", "c", "h", "e", "m", "a">>, <<"t", "e", "m", "p", "l", "a", "t", "e">>, <<"i", "n", "p", "u", "t">>,
      <<"o", "u", "t", "p", "u", "t">>, <<"d", "i", "r">>, <<"d", "i", "r", "e", "c", "t", "o", "r", "y">>,
      <<"e", "x", "t", "e", "n", "d", "s">>, <<"i", "n", "h", "e", "r", "i", "t", "s">>, <<"b", "a", "s", "e">>,
      <<"r", "e", "f">>, <<"r", "e", "f", "e", "r", "e", "n", "c", "e">>, <<"$", "r", "e", "f">> }

PATH_COMMANDS ==
    { <<"c", "h", "m", "o", "d">>, <<"c", "h", "o", "w", "n">>, <<"c", "h", "g", "r", "p">>,
      <<"m", "v">>, <<"c", "p">>, <<"r", "m">>,
      <<"r", "m", "d", "i", "r">>, <<"m", "k", "d", "i", "r">>, <<"t", "o", "u", "c", "h">>,
      <<"l", "n">>, <<"c", "a", "t">>, <<"h", "e", "a", "d">>,
      <<"t", "a", "i", "l">>, <<"l", "e", "s", "s">>, <<"m", "o", "r", "e">>,
      <<"s", "t", "a", "t">>, <<"l", "s">>, <<"d", "i", "r">>,
      <<"f", "i", "n", "d">>, <<"t", "a", "r">>, <<"g", "z", "i", "p">>,
      <<"g", "u", "n", "z", "i", "p">>, <<"z", "i", "p">>, <<"u", "n", "z", "i", "p">>,
      <<"s", "o", "u", "r", "c", "e">>, <<"e", "x", "e", "c">>, <<"b", "a", "s", "h">>,
      <<"s", "h">>, <<"z", "s", "h">>, <<"p", "y", "t", "h", "o", "n">>,
      <<"p", "y", "t", "h", "o", "n", "3">>, <<"n", "o", "d", "e">>, <<"r", "u", "b", "y">>,
      <<"p", "e", "r", "l">>, <<"s", "u", "d", "o">>, <<"s", "u">> }

URL_KEY_HINTS ==
    { <<"$", "s", "c", "h", "e", "m", "a">>, <<"s", "c", "h", "e", "m", "a">>, <<"$", "r", "e", "f">>,
      <<"r", "e", "f">>, <<"u", "r", "l">>, <<"u", "r", "i">>,
      <<"h", "r", "e", "f">>, <<"l", "i", "n", "k">>, <<"h", "o", "m", "e", "p", "a", "g", "e">>,
      <<"r", "e", "p", "o", "s", "i", "t", "o", "r", "y">>, <<"s", "o", "u", "r", "c", "e">> }

\* len(value) > 500 is rejected by _is_likely_path and _is_url
MaxValueLen == 500

\* re.match(r"^https?://", value, re.IGNORECASE)
MatchesHttp(value) ==
    \/ StartsWith(Lower(value), <<"h", "t", "t", "p", ":", "/", "/">>)
    \/ StartsWith(Lower(value), <<"h", "t", "t", "p", "s", ":", "/", "/">>)

_is_command_with_path_target(value) ==
    LET tokens == SplitWords(value)
    IN  IF tokens = <<>> THEN FALSE
        ELSE LET t0 == Lower(tokens[1])
                 first_token == IF t0 \in {<<"s", "u", "d", "o">>, <<"s", "u">>} /\ Len(tokens) > 1
                                THEN Lower(tokens[2]) ELSE t0
             IN  IF first_token \in PATH_COMMANDS THEN Len(tokens) > 1
                 ELSE IF Contains(first_token, <<"/">>)
                 THEN LET parts == Split(RStrip(first_token, {"/"}), {"/"})
                          cmd_name == parts[Len(parts)]
                      IN  cmd_name \in PATH_COMMANDS /\ Len(tokens) > 1
                 ELSE FALSE

\* value.endswith((".yaml", ".yml", ".json", ".toml", ".xml", ".ini", ".cfg"))
AggressiveExts ==
    { <<".", "y", "a", "m", "l">>, <<".", "y", "m", "l">>, <<".", "j", "s", "o", "n">>, <<".", "t", "o", "m", "l">>,
      <<".", "x", "m", "l">>, <<".", "i", "n", "i">>, <<".", "c", "f", "g">> }

\* the extensions of config_pattern: ya?ml|json|toml|xml|ini|cfg|conf|config
ConfigExts ==
    { <<"y", "a", "m", "l">>, <<"y", "m", "l">>, <<"j", "s", "o", "n">>, <<"t", "o", "m", "l">>,
      <<"x", "m", "l">>, <<"i", "n", "i">>, <<"c", "f", "g">>, <<"c", "o", "n", "f">>, <<"c", "o", "n", "f", "i", "g">> }

\* re.search(r"\.\w{1,10}$", value)
HasExtension(value) ==
    \E n \in 1..10 :
        /\ Len(value) >= n + 1
        /\ value[Len(value) - n] = "."
        /\ \A i \in (Len(value) - n + 1)..Len(value) : IsWordChar(value[i])

\* re.match(r"^[\w./\-_]+\.(ya?ml|json|toml|xml|ini|cfg|conf|config)$", value, re.IGNORECASE)
ConfigPattern(value) ==
    \E e \in ConfigExts :
        /\ Len(value) >= Len(e) + 2
        /\ Lower(SubSeq(value, Len(value) - Len(e) + 1, Len(value))) = e
        /\ value[Len(value) - Len(e)] = "."
        /\ \A i \in 1..(Len(value) - Len(e) - 1) :
               IsWordChar(value[i]) \/ value[i] \in {".", "/", "-", "_"}

_is_likely_path(value, aggressive) ==
    IF value = <<>> \/ Len(value) > MaxValueLen THEN FALSE
    ELSE IF MatchesHttp(value) THEN FALSE
    ELSE IF value[1] \in {"$", "{", "[", "(", "#", "@"} THEN FALSE
    ELSE IF Contains(value, <<"\n">>) \/ Contains(value, <<"\t">>) THEN FALSE
    ELSE IF _is_command_with_path_target(value) THEN FALSE
    ELSE IF aggressive
    THEN \/ Contains(value, <<"/">>)
         \/ Contains(value, <<"\\">>)
         \/ \E e \in AggressiveExts : EndsWith(value, e)
    ELSE HasExtension(value)
         /\ (Contains(value, <<"/">>) \/ Contains(value, <<"\\">>) \/ ConfigPattern(value))

\* the value None
None == <<"None">>

_clean_path(value) ==
    IF value = <<>> THEN None
    ELSE LET c1 == Strip(Strip(value, Whitespace), {"'", "\""})
         IN  IF StartsWith(c1, <<"#", "/">>) THEN None
             ELSE LET c2 == IF StartsWith(c1, <<".", "/">>) THEN SubSeq(c1, 3, Len(c1)) ELSE c1
                      cleaned == ReplaceChar(c2, "\\", "/")
                  IN  IF \/ StartsWith(cleaned, <<"/", "e", "t", "c", "/">>)
                         \/ StartsWith(cleaned, <<"/", "u", "s", "r", "/">>)
                         \/ StartsWith(cleaned, <<"/", "v", "a", "r", "/">>)
                      THEN None
                      ELSE IF cleaned = <<>> THEN None
                      ELSE cleaned

\* A decoded document is the set of its string leaves, each with the chain of
\* dict keys above it (outermost first; lists pass the key through):
\* [keys |-> <<key, ...>>, value |-> str].
\* `aggressive` at a leaf: some key above it hints at a path
IsPathKey(key) == \E hint \in PATH_KEY_HINTS : Contains(Lower(key), hint)
AggressiveAt(leaf) == \E i \in DOMAIN leaf.keys : IsPathKey(leaf.keys[i])

\* current_key at a leaf: the lower-cased nearest key, None at the top level
CurrentKeyAt(leaf) ==
    IF leaf.keys = <<>> THEN None ELSE Lower(leaf.keys[Len(leaf.keys)])

extract_candidate_paths(data) ==
    {_clean_path(leaf.value) :
        leaf \in {l \in data : /\ _is_likely_path(l.value, AggressiveAt(l))
                               /\ _clean_path(l.value) # None}}

\* re.search of the schema patterns, re.IGNORECASE
SchemaPattern(value) ==
    LET v == Lower(value)
    IN  \/ Contains(v, <<"j", "s", "o", "n", "-", "s", "c", "h", "e", "m", "a", ".", "o", "r", "g">>)
        \/ Contains(v, <<"s", "c", "h", "e", "m", "a", ".">>)
        \/ Contains(v, <<"/", "s", "c", "h", "e", "m", "a">>)
        \/ EndsWith(v, <<".", "x", "s", "d">>) \/ EndsWith(v, <<".", "x", "s", "d", "\n">>)
        \/ EndsWith(v, <<".", "d", "t", "d">>) \/ EndsWith(v, <<".", "d", "t", "d", "\n">>)

_is_url(value, current_key) ==
    IF value = <<>> \/ Len(value) > MaxValueLen THEN FALSE
    ELSE IF ~MatchesHttp(value) THEN FALSE
    ELSE IF current_key # None /\ current_key # <<>>
            /\ \E hint \in URL_KEY_HINTS : Contains(current_key, hint)
    THEN TRUE
    ELSE SchemaPattern(value)

extract_urls(data) ==
    {leaf.value : leaf \in {l \in data : _is_url(l.value, CurrentKeyAt(l))}}

----------------------------------------------------------------------------
(* scanner/builder.py: is_template_path *)

is_template_path(candidate) ==
    Contains(candidate, <<"{", "{", " ">>) /\ Contains(candidate, <<" ", "}", "}">>)

----------------------------------------------------------------------------
(* scanner/resolver.py.  The repository on disk is fs.files, a set of absolute
   Paths of regular files (the components below "/"); its directories are the
   proper prefixes of these; there are no symbolic links, so Path.resolve()
   only removes ".." segments. *)

\* no Path: the None that resolve_candidate_path returns
NoPath == <<None>>

\* Path(normalized): the components, without empty and "." segments
ParsePath(s) == SelectSeq(Split(s, {"/"}), LAMBDA c : c # <<>> /\ c # <<".">>)

\* Path.resolve(): ".." removes the component before it and stays at "/"
RECURSIVE ResolveFrom(_, _)
ResolveFrom(acc, rest) ==
    IF rest = <<>> THEN acc
    ELSE IF rest[1] = <<".", ".">>
    THEN ResolveFrom(IF acc = <<>> THEN acc ELSE SubSeq(acc, 1, Len(acc) - 1), Tail(rest))
    ELSE ResolveFrom(Append(acc, rest[1]), Tail(rest))

PathResolve(p) == ResolveFrom(<<>>, p)

\* Path.is_file()
IsFile(p) == p \in fs.files

_is_within_repo(path, root) ==
    LET p == PathResolve(path)
        r == PathResolve(root)
    IN  Len(r) <= Len(p) /\ SubSeq(p, 1, Len(r)) = r

\* source_dir.parents, nearest first, "/" last
Parents(dir) == [i \in 1..Len(dir) |-> SubSeq(dir, 1, Len(dir) - i)]

\* the slip: the walk goes on above the root
RECURSIVE TryParents_above_root(_, _, _)
TryParents_above_root(parents, candidate_path, root) ==
    IF parents = <<>> THEN NoPath
    ELSE LET resolved == PathResolve(parents[1] \o candidate_path)
         IN  IF IsFile(resolved) /\ _is_within_repo(resolved, root) THEN resolved
             ELSE TryParents_above_root(Tail(parents), candidate_path, root)

\* strategy 4: the first ancestor that yields a file; stops at an ancestor outside the root
RECURSIVE TryParents(_, _, _)
TryParents(parents, candidate_path, root) ==
    IF parents = <<>> THEN NoPath
    ELSE IF ~_is_within_repo(parents[1], root) THEN NoPath
    ELSE LET resolved == PathResolve(parents[1] \o candidate_path)
         IN  IF IsFile(resolved) /\ _is_within_repo(resolved, root) THEN resolved
             ELSE TryParents(Tail(parents), candidate_path, root)

\* the slip: strategy 1 returns the file without the containment test
resolve_candidate_path_unchecked(source_file, candidate, root0) ==
    IF candidate = <<>> THEN NoPath
    ELSE
    LET root == PathResolve(root0)
        source_dir == PathResolve(SubSeq(source_file, 1, Len(source_file) - 1))
        normalized == LStrip(ReplaceChar(candidate, "\\", "/"), {"/"})
        candidate_path == ParsePath(normalized)
        is_absolute == StartsWith(normalized, <<"/">>)
        r1 == PathResolve(source_dir \o candidate_path)
        r2 == PathResolve(root \o candidate_path)
        r3 == PathResolve(candidate_path)
    IN  IF IsFile(r1) THEN r1
        ELSE IF IsFile(r2) /\ _is_within_repo(r2, root) THEN r2
        ELSE IF is_absolute /\ IsFile(r3) /\ _is_within_repo(r3, root) THEN r3
        ELSE TryParents(Parents(source_dir), candidate_path, root)

resolve_candidate_path(source_file, candidate, root0) ==
    IF candidate = <<>> THEN NoPath
    ELSE
    LET root == PathResolve(root0)
        source_dir == PathResolve(SubSeq(source_file, 1, Len(source_file) - 1))
        normalized == LStrip(ReplaceChar(candidate, "\\", "/"), {"/"})
        candidate_path == ParsePath(normalized)
        is_absolute == StartsWith(normalized, <<"/">>)
        r1 == PathResolve(source_dir \o candidate_path)
        r2 == PathResolve(root \o candidate_path)
        r3 == PathResolve(candidate_path)
    IN  IF IsFile(r1) /\ _is_within_repo(r1, root) THEN r1
        ELSE IF IsFile(r2) /\ _is_within_repo(r2, root) THEN r2
        ELSE IF is_absolute /\ IsFile(r3) /\ _is_within_repo(r3, root) THEN r3
        ELSE TryParents(Parents(source_dir), candidate_path, root)

----------------------------------------------------------------------------
(* scanner/discovery.py *)

DEFAULT_EXTENSIONS ==
    { <<".", "y", "a", "m", "l">>, <<".", "y", "m", "l">>, <<".", "j", "s", "o", "n">>, <<".", "t", "o", "m", "l">> }

DEFAULT_EXCLUDE_DIRS ==
    { <<".", "g", "i", "t">>, <<".", "h", "g">>, <<".", "s", "v", "n">>,
      <<"n", "o", "d", "e", "_", "m", "o", "d", "u", "l", "e", "s">>, <<"_", "_", "p", "y", "c", "a", "c", "h", "e", "_", "_">>, <<".", "t", "o", "x">>,
      <<".", "n", "o", "x">>, <<"v", "e", "n", "v">>, <<".", "v", "e", "n", "v">>,
      <<"e", "n", "v">>, <<".", "e", "n", "v">>, <<".", "i", "d", "e", "a">>,
      <<".", "v", "s", "c", "o", "d", "e">>, <<"b", "u", "i", "l", "d">>, <<"d", "i", "s", "t">>,
      <<".", "e", "g", "g", "s">>, <<"*", ".", "e", "g", "g", "-", "i", "n", "f", "o">> }

\* max_depth = None
NoDepth == -1

\* PurePath.suffix of a file name
RECURSIVE LastDot(_, _)
LastDot(name, i) == IF i = 0 THEN 0 ELSE IF name[i] = "." THEN i ELSE LastDot(name, i - 1)

Suffix(name) ==
    LET i == LastDot(name, Len(name))
    IN  IF 1 < i /\ i < Len(name) THEN SubSeq(name, i, Len(name)) ELSE <<>>

\* current.iterdir(): the entries of a directory
Entries(current) ==
    {SubSeq(f, 1, Len(current) + 1) :
        f \in {x \in fs.files : Len(x) > Len(current) /\ SubSeq(x, 1, Len(current)) = current}}

IsDir(p) == \E f \in fs.files : Len(f) > Len(p) /\ SubSeq(f, 1, Len(p)) = p

\* a directory iter_files skips: its name is excluded, or ends with an excluded "*" pattern
Excluded(name, exclude_dirs) ==
    \/ name \in exclude_dirs
    \/ \E pat \in exclude_dirs : StartsWith(pat, <<"*">>) /\ EndsWith(name, LStrip(pat, {"*"}))

\* the slip: the entries of a directory are visited in descending order
RECURSIVE WalkListReversed(_, _, _, _, _)
WalkListReversed(entries, depth, include_ext, exclude_dirs, max_depth) ==
    IF entries = <<>> THEN <<>>
    ELSE
    LET entry == entries[Len(entries)]
        rest == WalkListReversed(SubSeq(entries, 1, Len(entries) - 1), depth, include_ext,
                                 exclude_dirs, max_depth)
        name == entry[Len(entry)]
    IN  IF IsDir(entry)
        THEN IF Excluded(name, exclude_dirs) THEN rest
             ELSE IF max_depth # NoDepth /\ depth + 1 > max_depth THEN rest
             ELSE IF entry \in fs.denied THEN rest
             ELSE WalkListReversed(SortedPaths(Entries(entry)), depth + 1, include_ext,
                                   exclude_dirs, max_depth) \o rest
        ELSE IF Lower(Suffix(name)) \in include_ext THEN <<entry>> \o rest
        ELSE rest

\* _walk over the sorted entries of one directory at `depth`: what it yields, in order
RECURSIVE WalkList(_, _, _, _, _)
WalkList(entries, depth, include_ext, exclude_dirs, max_depth) ==
    IF entries = <<>> THEN <<>>
    ELSE
    LET entry == entries[1]
        rest == WalkList(Tail(entries), depth, include_ext, exclude_dirs, max_depth)
        name == entry[Len(entry)]
    IN  IF IsDir(entry)
        THEN IF Excluded(name, exclude_dirs) THEN rest
             ELSE IF max_depth # NoDepth /\ depth + 1 > max_depth THEN rest
             ELSE IF entry \in fs.denied THEN rest
             ELSE WalkList(SortedPaths(Entries(entry)), depth + 1, include_ext,
                           exclude_dirs, max_depth) \o rest
        ELSE IF Lower(Suffix(name)) \in include_ext THEN <<entry>> \o rest
        ELSE rest

iter_files(root, include_ext, exclude_dirs, max_depth) ==
    IF max_depth # NoDepth /\ 0 > max_depth THEN <<>>
    ELSE IF root \in fs.denied THEN <<>>
    ELSE WalkList(SortedPaths(Entries(root)), 0, include_ext, exclude_dirs, max_depth)

----------------------------------------------------------------------------
(* Specification Spec: any sequence of add_* calls on one ReferenceGraph *)

\* most add_* calls made on one graph
MaxOps == 3

\* the paths and strings the calls are made with
S_repo == <<"r", "e", "p", "o">>
S_a == <<"a", ".", "y", "a", "m", "l">>
S_b == <<"b", ".", "y", "a", "m", "l">>
S_c == <<"c", ".", "y", "a", "m", "l">>
P_a == <<S_repo, S_a>>
P_b == <<S_repo, S_b>>
P_c == <<S_repo, S_c>>
ApiPaths == {P_a, P_b, P_c}
S_x == <<"x", ".", "j", "s", "o", "n">>
S_u == <<"h", "t", "t", "p", "s", ":", "/", "/", "u">>
ApiStrs == {S_x, S_u}

Idle == [at |-> "idle"]
NoFs == [files |-> {}, denied |-> {}]
NoCli == [format |-> "none"]

Init ==
    /\ g = EmptyGraph
    /\ ops = 0
    /\ pc = Idle
    /\ fs = NoFs
    /\ todo = <<>>
    /\ scanned = <<>>
    /\ cli = NoCli
    /\ status = "none"
    /\ out = <<>>

AddNode ==
    /\ ops < MaxOps
    /\ \E n \in ApiPaths : g' = add_node(g, n)
    /\ ops' = ops + 1
    /\ UNCHANGED <<pc, fs, todo, scanned, cli, status, out>>

AddEdge ==
    /\ ops < MaxOps
    /\ \E s \in ApiPaths, t \in ApiPaths : g' = add_edge(g, s, t)
    /\ ops' = ops + 1
    /\ UNCHANGED <<pc, fs, todo, scanned, cli, status, out>>

AddMissing ==
    /\ ops < MaxOps
    /\ \E s \in ApiPaths, c \in ApiStrs : g' = add_missing(g, s, c)
    /\ ops' = ops + 1
    /\ UNCHANGED <<pc, fs, todo, scanned, cli, status, out>>

AddRemote ==
    /\ ops < MaxOps
    /\ \E s \in ApiPaths, u \in ApiStrs : g' = add_remote(g, s, u)
    /\ ops' = ops + 1
    /\ UNCHANGED <<pc, fs, todo, scanned, cli, status, out>>

AddTemplate ==
    /\ ops < MaxOps
    /\ \E s \in ApiPaths, c \in ApiStrs : g' = add_template(g, s, c)
    /\ ops' = ops + 1
    /\ UNCHANGED <<pc, fs, todo, scanned, cli, status, out>>

Next == AddNode \/ AddEdge \/ AddMissing \/ AddRemote \/ AddTemplate

Spec == Init /\ [][Next]_vars

----------------------------------------------------------------------------
(* Properties of the graph interface *)

\* C1: after any sequence of add_node, add_edge, add_missing, add_remote and
\* add_template calls, the source and the target of every resolved edge are in
\* the node set.
C1_NoDanglingEdges ==
    \A e \in EdgePairs(g) : e[1] \in g.nodes /\ e[2] \in g.nodes

\* an edge whose target was never added by another call, with calls of the other
\* kinds made on the same graph
C1_Witness ==
    /\ <<P_a, P_b>> \in EdgePairs(g)
    /\ DictKeys(g.missing) # {}
    /\ g.nodes = {P_a, P_b, P_c}

----------------------------------------------------------------------------
(* scanner/builder.py: build_graph *)

\* the slip: a template-shaped unresolved candidate is recorded as missing as well
AddCandidate_template_and_missing(G, file_path, candidate, root) ==
    LET resolved == resolve_candidate_path(file_path, candidate, root)
    IN  IF resolved # NoPath /\ resolved # file_path THEN add_edge(G, file_path, resolved)
        ELSE IF resolved = NoPath
        THEN IF is_template_path(candidate)
             THEN add_missing(add_template(G, file_path, candidate), file_path, candidate)
             ELSE add_missing(G, file_path, candidate)
        ELSE G

\* the slip: `else` for `elif resolved is None`, so a self-reference counts as unresolved
AddCandidate_else_unresolved(G, file_path, candidate, root) ==
    LET resolved == resolve_candidate_path(file_path, candidate, root)
    IN  IF resolved # NoPath /\ resolved # file_path THEN add_edge(G, file_path, resolved)
        ELSE IF is_template_path(candidate)
             THEN add_template(G, file_path, candidate)
             ELSE add_missing(G, file_path, candidate)

\* the slip: the test `resolved != file_path` is left out
AddCandidate_self_edge(G, file_path, candidate, root) ==
    LET resolved == resolve_candidate_path(file_path, candidate, root)
    IN  IF resolved # NoPath THEN add_edge(G, file_path, resolved)
        ELSE IF is_template_path(candidate)
             THEN add_template(G, file_path, candidate)
             ELSE add_missing(G, file_path, candidate)

\* the body of `for candidate in candidates`
AddCandidate(G, file_path, candidate, root) ==
    LET resolved == resolve_candidate_path(file_path, candidate, root)
    IN  IF resolved # NoPath /\ resolved # file_path THEN add_edge(G, file_path, resolved)
        ELSE IF resolved = NoPath
        THEN IF is_template_path(candidate)
             THEN add_template(G, file_path, candidate)
             ELSE add_missing(G, file_path, candidate)
        ELSE G

\* the slip: a template-shaped URL is recorded as a template relation only
AddUrl_template_only(G, file_path, url) ==
    IF is_template_path(url) THEN add_template(G, file_path, url)
    ELSE add_remote(G, file_path, url)

\* the body of `for url in urls`
AddUrl(G, file_path, url) ==
    LET G1 == add_remote(G, file_path, url)
    IN  IF is_template_path(url) THEN add_template(G1, file_path, url) ELSE G1

RECURSIVE AddCandidates(_, _, _, _)
AddCandidates(G, file_path, candidates, root) ==
    IF candidates = {} THEN G
    ELSE LET c == CHOOSE x \in candidates : \A y \in candidates : ~StrLess(y, x)
         IN  AddCandidates(AddCandidate(G, file_path, c, root), file_path, candidates \ {c}, root)

RECURSIVE AddUrls(_, _, _)
AddUrls(G, file_path, urls) ==
    IF urls = {} THEN G
    ELSE LET u == CHOOSE x \in urls : \A y \in urls : ~StrLess(y, x)
         IN  AddUrls(AddUrl(G, file_path, u), file_path, urls \ {u})

\* one iteration of `for file_path in iter_files(...)` on a decoded file, given
\* candidates = extract_candidate_paths(data) and urls = extract_urls(data)
ScanDecoded(G, file_path, candidates, urls, root) ==
    AddUrls(AddCandidates(add_node(G, file_path), file_path, candidates, root), file_path, urls)

----------------------------------------------------------------------------
(* Specification SpecBuild: build_graph on a repository.  The repository is one
   of Repos; the document parse_file decodes from a file is drawn when the file
   is reached, among the documents over Leaves with at most MaxLeaves string
   leaves in the whole scan. *)

\* most string leaves in the documents of one scan
MaxLeaves == 2

S_d == <<"d">>
S_n == <<"n", ".", "t", "x", "t">>
S_bj == <<"b", ".", "j", "s", "o", "n">>
S_cy == <<"c", ".", "y", "a", "m", "l">>
F_a == <<S_repo, S_a>>
F_db == <<S_repo, S_d, S_bj>>
F_dc == <<S_repo, S_d, S_cy>>
F_dn == <<S_repo, S_d, S_n>>
RepoRoot == <<S_repo>>

Repo(files, denied, max_depth) ==
    [root |-> RepoRoot, files |-> files, denied |-> denied, max_depth |-> max_depth,
     include_ext |-> DEFAULT_EXTENSIONS, exclude_dirs |-> DEFAULT_EXCLUDE_DIRS]

Repos ==
    { Repo({F_a, F_db, F_dc, F_dn}, {}, NoDepth),
      Repo({F_a, F_db, F_dc, F_dn}, {}, 0),
      Repo({F_a, F_db, F_dc}, {<<S_repo, S_d>>}, NoDepth) }

K_other == <<"o", "t", "h", "e", "r">>
K_config_path == <<"c", "o", "n", "f", "i", "g", "_", "p", "a", "t", "h">>
KeyChains == {<<K_other>>, <<K_config_path>>}

V_b == <<"b", ".", "j", "s", "o", "n">>
V_db == <<"d", "/", "b", ".", "j", "s", "o", "n">>
V_c == <<"c", ".", "y", "a", "m", "l">>
V_n == <<".", "/", "n", ".", "t", "x", "t">>
V_tpl == <<"t", "/", "{", "{", " ", "x", " ", "}", "}", ".", "j", "s", "o", "n">>
V_url == <<"h", "t", "t", "p", "s", ":", "/", "/", "h", "/", "s", "c", "h", "e", "m", "a", ".", "j", "s", "o", "n">>
V_spurl == <<" ", "h", "t", "t", "p", "s", ":", "/", "/", "h", "/", "s", "c", "h", "e", "m", "a", ".", "j", "s", "o", "n">>
V_tplurl == <<"h", "t", "t", "p", "s", ":", "/", "/", "h", "/", "s", "c", "h", "e", "m", "a", "/", "{", "{", " ", "x", " ", "}", "}">>
Values == {V_b, V_db, V_c, V_n, V_tpl, V_url, V_spurl, V_tplurl}

Leaves == {[keys |-> k, value |-> v] : k \in KeyChains, v \in Values}

\* the documents with at most n leaves
RECURSIVE DocsUpTo(_)
DocsUpTo(n) ==
    IF n = 0 THEN {{}}
    ELSE LET S == DocsUpTo(n - 1) IN S \cup {s \cup {l} : s \in S, l \in Leaves}

RECURSIVE LeavesIn(_)
LeavesIn(sc) ==
    IF sc = <<>> THEN 0
    ELSE (IF sc[1].decoded THEN Cardinality(sc[1].data) ELSE 0) + LeavesIn(Tail(sc))

InitBuild ==
    /\ fs \in Repos
    /\ g = EmptyGraph
    /\ ops = 0
    /\ pc = [at |-> "scan"]
    /\ todo = iter_files(fs.root, fs.include_ext, fs.exclude_dirs, fs.max_depth)
    /\ scanned = <<>>
    /\ cli = NoCli
    /\ status = "none"
    /\ out = <<>>

\* parse_file returns a document: references are extracted and recorded
ScanFile ==
    /\ pc.at = "scan"
    /\ todo # <<>>
    /\ \E data \in DocsUpTo(MaxLeaves - LeavesIn(scanned)) :
          LET candidates == extract_candidate_paths(data)
              urls == extract_urls(data)
          IN  /\ g' = ScanDecoded(g, Head(todo), candidates, urls, fs.root)
              /\ scanned' = Append(scanned,
                     [file |-> Head(todo), decoded |-> TRUE, data |-> data,
                      candidates |-> candidates, urls |-> urls,
                      resolved |-> [c \in candidates |->
                                       resolve_candidate_path(Head(todo), c, fs.root)]])
    /\ todo' = Tail(todo)
    /\ UNCHANGED <<ops, pc, fs, cli, status, out>>

\* the slip: a file that cannot be decoded ends the scan
ScanUndecodable_abort ==
    /\ pc.at = "scan"
    /\ todo # <<>>
    /\ g' = add_node(g, Head(todo))
    /\ scanned' = Append(scanned, [file |-> Head(todo), decoded |-> FALSE, data |-> {},
                                   candidates |-> {}, urls |-> {}, resolved |-> <<>>])
    /\ todo' = <<>>
    /\ UNCHANGED <<ops, pc, fs, cli, status, out>>

\* parse_file returns None: the file stays a node, nothing is extracted
ScanUndecodable ==
    /\ pc.at = "scan"
    /\ todo # <<>>
    /\ g' = add_node(g, Head(todo))
    /\ scanned' = Append(scanned, [file |-> Head(todo), decoded |-> FALSE, data |-> {},
                                   candidates |-> {}, urls |-> {}, resolved |-> <<>>])
    /\ todo' = Tail(todo)
    /\ UNCHANGED <<ops, pc, fs, cli, status, out>>

\* `return graph`
BuildReturn ==
    /\ pc.at = "scan"
    /\ todo = <<>>
    /\ pc' = [at |-> "built"]
    /\ UNCHANGED <<g, ops, fs, todo, scanned, cli, status, out>>

NextBuild == ScanFile \/ ScanUndecodable \/ BuildReturn

SpecBuild == InitBuild /\ [][NextBuild]_vars

----------------------------------------------------------------------------
(* Properties of build_graph *)

\* <<a, b>> before <<c, d>>: by source Path, then by target Path / by string
PathPairLess(x, y) == PathLess(x[1], y[1]) \/ (x[1] = y[1] /\ PathLess(x[2], y[2]))
StrPairLess(x, y) == PathLess(x[1], y[1]) \/ (x[1] = y[1] /\ StrLess(x[2], y[2]))

AscendingPaths(s) == \A i \in 1..(Len(s) - 1) : PathPairLess(s[i], s[i + 1])
AscendingStrs(s) == \A i \in 1..(Len(s) - 1) : StrPairLess(s[i], s[i + 1])

\* the decoded files handled so far, the candidates extracted from each and what
\* resolve_candidate_path returned for each candidate
Decoded == {scanned[i] : i \in {j \in DOMAIN scanned : scanned[j].decoded}}
CandidatesOf(e) == e.candidates
ResolvedOf(e, c) == e.resolved[c]

C4_NoCategoryOverlap ==
    pc.at = "built" =>
        \A s \in g.nodes :
            /\ get_missing(g, s) \cap get_remote(g, s) = {}
            /\ get_missing(g, s) \cap get_templates(g, s) = {}

\* C5: in the graph build_graph builds, no string is both a missing and a template
\* relation of one source: an unresolved template-shaped candidate is a template
\* relation and not a missing one, any other unresolved candidate a missing
\* relation and not a template one.
C5_MissingXorTemplate ==
    /\ \A s \in g.nodes : get_missing(g, s) \cap get_templates(g, s) = {}
    /\ \A e \in Decoded : \A c \in CandidatesOf(e) :
          ResolvedOf(e, c) = NoPath =>
              IF is_template_path(c)
              THEN c \in get_templates(g, e.file) /\ c \notin get_missing(g, e.file)
              ELSE c \in get_missing(g, e.file) /\ c \notin get_templates(g, e.file)

\* one file with an unresolved template-shaped candidate and an unresolved plain one
C5_Witness ==
    \E e \in Decoded : \E c \in CandidatesOf(e), d \in CandidatesOf(e) :
        /\ ResolvedOf(e, c) = NoPath /\ is_template_path(c)
        /\ ResolvedOf(e, d) = NoPath /\ ~is_template_path(d)
        /\ c \in get_templates(g, e.file)
        /\ d \in get_missing(g, e.file)

\* C6: during build_graph, a path candidate of a file that the resolver maps to
\* an existing file is never a missing relation of that file.
C6_ResolvedNeverMissing ==
    \A e \in Decoded : \A c \in CandidatesOf(e) :
        ResolvedOf(e, c) # NoPath => c \notin get_missing(g, e.file)

\* a file with a candidate resolved to another file (an edge) and an unresolved one
C6_Witness ==
    \E e \in Decoded : \E c \in CandidatesOf(e) :
        /\ ResolvedOf(e, c) # NoPath
        /\ ResolvedOf(e, c) # e.file
        /\ ResolvedOf(e, c) \in get_targets(g, e.file)
        /\ get_missing(g, e.file) # {}

----------------------------------------------------------------------------
(* cli.py: main, and the signatures of the exporters it calls *)

\* the parameters each exporter declares
to_ascii_params ==
    {"graph", "root", "base", "style", "include_missing", "include_remote",
     "include_templates", "show_all"}
to_json_params ==
    {"graph", "root", "base", "indent", "include_missing", "include_remote"}
to_mermaid_params ==
    {"graph", "root", "orientation", "base", "group_by_directory", "include_missing",
     "include_remote"}

\* the keyword arguments main passes to each exporter
main_ascii_args ==
    {"graph", "root", "base", "style", "include_missing", "include_remote",
     "include_templates", "include_folders", "show_all"}
main_json_args ==
    {"graph", "root", "base", "include_missing", "include_remote", "include_templates",
     "include_folders", "show_all"}
main_mermaid_args ==
    {"graph", "root", "orientation", "base", "group_by_directory", "include_missing",
     "include_remote", "include_templates", "include_folders", "show_all"}

\* a call with a keyword the function does not declare raises TypeError
CallRaisesTypeError(args, params) == args \ params # {}

ExportRaises(format) ==
    IF format = "mermaid" THEN CallRaisesTypeError(main_mermaid_args, to_mermaid_params)
    ELSE IF format = "json" THEN CallRaisesTypeError(main_json_args, to_json_params)
    ELSE CallRaisesTypeError(main_ascii_args, to_ascii_params)

\* the graphs build_graph hands to main in this specification
MainGraphs ==
    { EmptyGraph,
      add_edge(EmptyGraph, P_a, P_b),
      add_missing(add_missing(EmptyGraph, P_a, S_x), P_b, S_x) }

(* Specification SpecMain: one run of main.  cli holds the parsed arguments and
   what the environment answers: whether the root is a directory, whether
   build_graph raises, whether writing the output file fails. *)

CliRuns ==
    [format : {"ascii", "mermaid", "json"},
     root_is_dir : BOOLEAN,
     build_raises : BOOLEAN,
     output : BOOLEAN,
     write_fails : BOOLEAN,
     ignore_missing : BOOLEAN,
     show_all : BOOLEAN]

InitMain ==
    /\ cli \in CliRuns
    /\ g = EmptyGraph
    /\ ops = 0
    /\ pc = [at |-> "main"]
    /\ fs = NoFs
    /\ todo = <<>>
    /\ scanned = <<>>
    /\ status = "running"
    /\ out = <<>>

\* lines 144-147: the root must be a directory
MainCheckRoot ==
    /\ pc.at = "main"
    /\ IF ~cli.root_is_dir
       THEN pc' = [at |-> "done"] /\ status' = "return 1"
       ELSE pc' = [at |-> "build"] /\ status' = status
    /\ UNCHANGED <<g, ops, fs, todo, scanned, cli, out>>

\* lines 164-174: build_graph inside try/except
MainBuild ==
    /\ pc.at = "build"
    /\ IF cli.build_raises
       THEN pc' = [at |-> "done"] /\ status' = "return 1" /\ g' = g
       ELSE pc' = [at |-> "export"] /\ status' = status /\ g' \in MainGraphs
    /\ UNCHANGED <<ops, fs, todo, scanned, cli, out>>

\* lines 182-232: the exporter call (outside any try), then the output
MainExport ==
    /\ pc.at = "export"
    /\ pc' = [at |-> "done"]
    /\ status' = IF ExportRaises(cli.format) THEN "TypeError"
                 ELSE IF cli.output /\ cli.write_fails THEN "return 1"
                 ELSE "return 0"
    /\ UNCHANGED <<g, ops, fs, todo, scanned, cli, out>>

NextMain == MainCheckRoot \/ MainBuild \/ MainExport

SpecMain == InitMain /\ [][NextMain]_vars

\* C3: main returns non-zero if the root is not a directory or writing the output
\* fails, zero in every other case, for each format and whatever was found; it
\* never ends in an uncaught error.
C3_ExitStatus ==
    pc.at = "done" =>
        status = IF ~cli.root_is_dir \/ (cli.output /\ cli.write_fails)
                 THEN "return 1" ELSE "return 0"

----------------------------------------------------------------------------
(* exporters/ascii_exporter.py.  A rendered line is a record of the parts the
   code concatenates: prefix (the "space"/"vertical" units), connector ("last",
   "branch", or "" at a root), text and tag (the cycle marker or a category
   tag).  Two fields are bookkeeping of the model: node, the graph node a node
   line was rendered for, and anc, the nodes of the _render_node calls open when
   it was rendered, outermost first. *)

\* "/".join(parts)
RECURSIVE JoinPath(_)
JoinPath(parts) ==
    IF parts = <<>> THEN <<>>
    ELSE IF Len(parts) = 1 THEN parts[1]
    ELSE parts[1] \o <<"/">> \o JoinPath(Tail(parts))

IsUnder(path, dir) == Len(dir) <= Len(path) /\ SubSeq(path, 1, Len(dir)) = dir

\* str(relative path): "." for the empty relative path
RelStr(path, dir) ==
    IF Len(path) = Len(dir) THEN <<".">> ELSE JoinPath(SubSeq(path, Len(dir) + 1, Len(path)))

_get_display_path(node, base, root) ==
    IF IsUnder(PathResolve(node), PathResolve(base)) THEN RelStr(PathResolve(node), PathResolve(base))
    ELSE IF IsUnder(PathResolve(node), PathResolve(root)) THEN RelStr(PathResolve(node), PathResolve(root))
    ELSE <<"/">> \o JoinPath(node)

NodeLine(node, prefix, is_last, is_root, is_cycle, anc, args) ==
    [kind |-> "node",
     prefix |-> IF is_root THEN <<>> ELSE prefix,
     connector |-> IF is_root THEN "" ELSE IF is_last THEN "last" ELSE "branch",
     text |-> _get_display_path(node, args.base, args.root),
     tag |-> IF is_cycle THEN " [*]" ELSE "",
     node |-> node,
     anc |-> anc]

RefLine(text, prefix, is_last, tag) ==
    [kind |-> "ref", prefix |-> prefix, connector |-> IF is_last THEN "last" ELSE "branch",
     text |-> text, tag |-> tag, node |-> <<>>, anc |-> <<>>]

BlankLine ==
    [kind |-> "blank", prefix |-> <<>>, connector |-> "", text |-> <<>>, tag |-> "",
     node |-> <<>>, anc |-> <<>>]

\* the nodes of the open _render_node calls
OpenNodes(stack) == [i \in 1..Len(stack) |-> stack[i].node]

\* the slip: the remote references follow the switch of the missing ones
Frame_remote_by_missing(G, node, prefix, is_last, is_root, args) ==
    LET children == SortedPaths(get_targets(G, node))
        missing_refs == IF args.include_missing THEN SortedStrs(get_missing(G, node)) ELSE <<>>
        remote_refs == IF args.include_missing THEN SortedStrs(get_remote(G, node)) ELSE <<>>
        template_refs == IF args.include_templates THEN SortedStrs(get_templates(G, node)) ELSE <<>>
    IN  [node |-> node, prefix |-> prefix, is_last |-> is_last, is_root |-> is_root,
         children |-> children, missing_refs |-> missing_refs, remote_refs |-> remote_refs,
         template_refs |-> template_refs,
         total_items |-> Len(children) + Len(missing_refs) + Len(remote_refs) + Len(template_refs),
         item_index |-> 0]

\* the frame of a _render_node call that goes on to its children (lines 161-180)
Frame(G, node, prefix, is_last, is_root, args) ==
    LET children == SortedPaths(get_targets(G, node))
        missing_refs == IF args.include_missing THEN SortedStrs(get_missing(G, node)) ELSE <<>>
        remote_refs == IF args.include_remote THEN SortedStrs(get_remote(G, node)) ELSE <<>>
        template_refs == IF args.include_templates THEN SortedStrs(get_templates(G, node)) ELSE <<>>
    IN  [node |-> node, prefix |-> prefix, is_last |-> is_last, is_root |-> is_root,
         children |-> children, missing_refs |-> missing_refs, remote_refs |-> remote_refs,
         template_refs |-> template_refs,
         total_items |-> Len(children) + Len(missing_refs) + Len(remote_refs) + Len(template_refs),
         item_index |-> 0]

\* the slip: the node is added to visited before the cycle test
Enter_add_before_test(G, node, prefix, is_last, is_root, r, args) ==
    LET is_cycle == node \in (r.visited \cup {node})
        line == NodeLine(node, prefix, is_last, is_root, is_cycle, OpenNodes(r.stack), args)
    IN  [r EXCEPT !.lines = Append(@, line), !.visited = @ \cup {node}]

\* the slip: no return at a repeated node
Enter_no_return(G, node, prefix, is_last, is_root, r, args) ==
    LET is_cycle == node \in r.visited
        line == NodeLine(node, prefix, is_last, is_root, is_cycle, OpenNodes(r.stack), args)
    IN  [r EXCEPT !.lines = Append(@, line),
                  !.visited = @ \cup {node},
                  !.stack = Append(@, Frame(G, node, prefix, is_last, is_root, args))]

\* _render_node from its entry to the loop over the children (lines 139-180):
\* r holds visited, the open calls and the lines
Enter(G, node, prefix, is_last, is_root, r, args) ==
    LET is_cycle == node \in r.visited
        line == NodeLine(node, prefix, is_last, is_root, is_cycle, OpenNodes(r.stack), args)
    IN  IF is_cycle THEN [r EXCEPT !.lines = Append(@, line)]
        ELSE [r EXCEPT !.lines = Append(@, line),
                       !.visited = @ \cup {node},
                       !.stack = Append(@, Frame(G, node, prefix, is_last, is_root, args))]

\* the prefix handed to the items below a frame's node
NewPrefix(f) ==
    IF f.is_root THEN <<>> ELSE Append(f.prefix, IF f.is_last THEN "space" ELSE "vertical")

\* the slip: the last reference of each category closes the branch
RefLines_last_of_category(refs, tag, f, start) ==
    [i \in 1..Len(refs) |-> RefLine(refs[i], NewPrefix(f), i = Len(refs), tag)]

\* the lines of one category of references, item_index running on from `start`
RefLines(refs, tag, f, start) ==
    [i \in 1..Len(refs) |-> RefLine(refs[i], NewPrefix(f), start + i = f.total_items, tag)]

\* the slip: the node stays in visited when the call returns
Leave_no_discard(r) ==
    LET f == r.stack[Len(r.stack)]
        n1 == f.item_index
        n2 == n1 + Len(f.missing_refs)
        n3 == n2 + Len(f.remote_refs)
    IN  [r EXCEPT !.lines = @ \o RefLines(f.missing_refs, " [MISSING]", f, n1)
                              \o RefLines(f.remote_refs, " [REMOTE]", f, n2)
                              \o RefLines(f.template_refs, " [TEMPLATE]", f, n3),
                  !.stack = SubSeq(@, 1, Len(@) - 1)]

\* _render_node after the loop over the children (lines 209-253)
Leave(r) ==
    LET f == r.stack[Len(r.stack)]
        n1 == f.item_index
        n2 == n1 + Len(f.missing_refs)
        n3 == n2 + Len(f.remote_refs)
    IN  [r EXCEPT !.lines = @ \o RefLines(f.missing_refs, " [MISSING]", f, n1)
                              \o RefLines(f.remote_refs, " [REMOTE]", f, n2)
                              \o RefLines(f.template_refs, " [TEMPLATE]", f, n3),
                  !.visited = @ \ {f.node},
                  !.stack = SubSeq(@, 1, Len(@) - 1)]

\* the slip: no fallback when every node in scope is referenced
RootNodes_no_fallback(G, show_all) ==
    LET nodes_to_show == IF show_all THEN G.nodes ELSE get_connected_nodes(G)
        all_targets == UNION {get_targets(G, n) : n \in nodes_to_show}
    IN  SortedPaths(nodes_to_show \ all_targets)

\* to_ascii, lines 59-77: the root nodes
RootNodes(G, show_all) ==
    LET nodes_to_show == IF show_all THEN G.nodes ELSE get_connected_nodes(G)
        all_targets == UNION {get_targets(G, n) : n \in nodes_to_show}
        r1 == SortedPaths(nodes_to_show \ all_targets)
        r2 == SortedPaths({n \in nodes_to_show : get_targets(G, n) # {}})
    IN  IF r1 # <<>> THEN r1 ELSE IF r2 # <<>> THEN r2 ELSE SortedPaths(nodes_to_show)

----------------------------------------------------------------------------
(* Specification SpecAscii: to_ascii on a graph.  The graph is any graph of at
   most MaxEdges resolved edges over AsciiNodes, with one of the Extras; cli holds
   the arguments of the call.  pc holds the control state: the root nodes still to
   render, visited and the open _render_node calls. *)

\* most resolved edges of a rendered graph
MaxEdges == 4

S_dy == <<"d", ".", "y", "a", "m", "l">>
P_d == <<S_repo, S_dy>>
AsciiNodes == {P_a, P_b, P_c, P_d}

\* the edges a rendered graph may have: every pair but those leaving d.yaml
AsciiEdges == {e \in AsciiNodes \X AsciiNodes : e[1] # P_d}

RECURSIVE EdgeSetsUpTo(_)
EdgeSetsUpTo(n) ==
    IF n = 0 THEN {{}}
    ELSE LET S == EdgeSetsUpTo(n - 1)
         IN  S \cup {s \cup {e} : s \in S, e \in AsciiEdges}

\* the graph after add_edge for each pair of E
RECURSIVE GraphOf(_, _)
GraphOf(G, E) ==
    IF E = {} THEN G
    ELSE LET e == CHOOSE x \in E : \A y \in E : ~PathPairLess(y, x)
         IN  GraphOf(add_edge(G, e[1], e[2]), E \ {e})

\* further calls made on the graph: none, an isolated node, references of each category
Extras == {"none", "isolated", "references"}

WithExtra(G, x) ==
    IF x = "isolated" THEN add_node(G, P_d)
    ELSE IF x = "references"
    THEN add_missing(add_template(add_remote(add_missing(G, P_a, S_x), P_a, S_u), P_b, S_x),
                     P_c, S_x)
    ELSE G

AsciiArgs ==
    [root : {RepoRoot}, base : {RepoRoot}, style : {"tree"}, show_all : BOOLEAN,
     include_missing : BOOLEAN, include_remote : BOOLEAN, include_templates : BOOLEAN]

\* the category switches that are off
SwitchesOff(args) ==
    {s \in {"include_missing", "include_remote", "include_templates"} : ~args[s]}

\* to_ascii is called with arguments args on the graph of the edges E and extra x
AsciiCalled(E, x, args) ==
    /\ g = WithExtra(GraphOf(EmptyGraph, E), x)
    /\ cli = args
    /\ ops = 0
    /\ pc = [at |-> "to_ascii", roots |-> <<>>, visited |-> {}, stack |-> <<>>]
    /\ fs = NoFs
    /\ todo = <<>>
    /\ scanned = <<>>
    /\ status = "none"
    /\ out = <<>>

\* at most one category switch is off, and none where the graph has no references
\* for a switch to act on
InitAscii ==
    \E E \in EdgeSetsUpTo(MaxEdges), x \in Extras, args \in AsciiArgs :
        /\ Cardinality(SwitchesOff(args)) <= (IF x = "references" THEN 1 ELSE 0)
        /\ AsciiCalled(E, x, args)

\* lines 48-79: the root nodes are chosen
AsciiStart ==
    /\ pc.at = "to_ascii"
    /\ pc' = [at |-> "render", roots |-> RootNodes(g, cli.show_all), visited |-> {},
              stack |-> <<>>]
    /\ UNCHANGED <<g, ops, fs, todo, scanned, cli, status, out>>

\* lines 81-97: _render_node is called on the next root node with a fresh visited set
AsciiRoot ==
    /\ pc.at = "render"
    /\ pc.stack = <<>>
    /\ pc.roots # <<>>
    /\ LET r == Enter(g, Head(pc.roots), <<>>, TRUE, TRUE,
                      [visited |-> {}, stack |-> <<>>, lines |-> out], cli)
       IN  /\ pc' = [at |-> "render", roots |-> Tail(pc.roots), visited |-> r.visited,
                     stack |-> r.stack]
           /\ out' = r.lines
    /\ UNCHANGED <<g, ops, fs, todo, scanned, cli, status>>

\* lines 183-207: _render_node is called on the next child of the innermost open call
RenderChild ==
    /\ pc.at = "render"
    /\ pc.stack # <<>>
    /\ pc.stack[Len(pc.stack)].children # <<>>
    /\ LET f == pc.stack[Len(pc.stack)]
           item_index == f.item_index + 1
           child_is_last == (item_index = f.total_items)
           stack1 == [pc.stack EXCEPT ![Len(pc.stack)] =
                         [f EXCEPT !.children = Tail(@), !.item_index = item_index]]
           r == Enter(g, Head(f.children), NewPrefix(f), child_is_last, FALSE,
                      [visited |-> pc.visited, stack |-> stack1, lines |-> out], cli)
       IN  /\ pc' = [pc EXCEPT !.visited = r.visited, !.stack = r.stack]
           /\ out' = r.lines
    /\ UNCHANGED <<g, ops, fs, todo, scanned, cli, status>>

\* lines 209-253: the innermost open call renders its references and returns; once
\* the call on a root node has returned, a blank line is added unless that root
\* was the last (lines 99-101)
RenderReturn ==
    /\ pc.at = "render"
    /\ pc.stack # <<>>
    /\ pc.stack[Len(pc.stack)].children = <<>>
    /\ LET r == Leave([visited |-> pc.visited, stack |-> pc.stack, lines |-> out])
       IN  /\ pc' = [pc EXCEPT !.visited = r.visited, !.stack = r.stack]
           /\ out' = IF r.stack = <<>> /\ pc.roots # <<>>
                     THEN Append(r.lines, BlankLine) ELSE r.lines
    /\ UNCHANGED <<g, ops, fs, todo, scanned, cli, status>>

\* line 103: the lines are joined and returned
AsciiReturn ==
    /\ pc.at = "render"
    /\ pc.stack = <<>>
    /\ pc.roots = <<>>
    /\ pc' = [pc EXCEPT !.at = "ascii_done"]
    /\ UNCHANGED <<g, ops, fs, todo, scanned, cli, status, out>>

NextAscii == AsciiStart \/ AsciiRoot \/ RenderChild \/ RenderReturn \/ AsciiReturn

SpecAscii == InitAscii /\ [][NextAscii]_vars

\* to_ascii with its default show_all on the graphs that have resolved edges only
InitAsciiFair ==
    \E E \in EdgeSetsUpTo(MaxEdges), args \in AsciiArgs :
        ~args.show_all /\ SwitchesOff(args) = {} /\ AsciiCalled(E, "none", args)

\* ... under weak fairness of its steps: a call that can go on does go on
SpecAsciiFair == InitAsciiFair /\ [][NextAscii]_vars /\ WF_vars(NextAscii)

----------------------------------------------------------------------------
(* Properties of the rendered tree *)

Range(s) == {s[i] : i \in 1..Len(s)}

NodeLines == {i \in 1..Len(out) : out[i].kind = "node"}

Marked(i) == out[i].tag = " [*]"

\* the traversal path of a node line: the open calls' nodes, then its own node
PathOf(i) == Append(out[i].anc, out[i].node)

IsPrefix(s, t) == Len(s) <= Len(t) /\ SubSeq(t, 1, Len(s)) = s

\* every target of the line's node has a line of its own one level below it
Expanded(i) ==
    \A t \in get_targets(g, out[i].node) :
        \E j \in NodeLines : j > i /\ out[j].node = t /\ out[j].anc = PathOf(i)

\* no node line lies below the line
Unexpanded(i) == ~\E j \in NodeLines : out[j].anc = PathOf(i)

\* two distinct nodes that reference each other
InTwoCycle(x, y) == x # y /\ y \in get_targets(g, x) /\ x \in get_targets(g, y)

ContainsTwoCycle == \E x, y \in g.nodes : InTwoCycle(x, y)

\* the node lines one level below line i
ChildLines(i) == {j \in NodeLines : out[j].anc = PathOf(i)}

\* the last lines of the root-to-leaf traversal paths
LeafLines == {i \in NodeLines : Unexpanded(i)}

\* the marked lines on the traversal path that ends at line i
MarkedOnPath(i) == {j \in NodeLines : Marked(j) /\ IsPrefix(PathOf(j), PathOf(i))}

C9_TerminatesDepthBounded ==
    /\ [](pc.at \in {"render", "ascii_done"} =>
             /\ Len(pc.stack) <= Cardinality(g.nodes)
             /\ \A i \in NodeLines : Len(out[i].anc) + 1 <= Cardinality(g.nodes) + 1)
    /\ <>(pc.at = "ascii_done")

\* a terminated rendering of a graph with a cycle through all its nodes, in
\* which a call was nested as deep as the bound allows
C9_Witness ==
    /\ pc.at = "ascii_done"
    /\ Cardinality(g.nodes) >= 3
    /\ \E i \in NodeLines : Len(out[i].anc) = Cardinality(g.nodes)

\* C10: a node line carries the cycle marker exactly when its node is among its
\* own ancestors on the current traversal path; a marked line is not expanded,
\* and an unmarked one, also one whose node was rendered before on a sibling
\* branch, has all its children rendered below it.
C10_MarkerIffAncestor ==
    /\ \A i \in NodeLines : Marked(i) <=> out[i].node \in Range(out[i].anc)
    /\ pc.at = "ascii_done" =>
           \A i \in NodeLines : IF Marked(i) THEN Unexpanded(i) ELSE Expanded(i)

\* a node with a child is rendered twice in one tree, on sibling branches,
\* unmarked both times
C10_Witness ==
    /\ pc.at = "ascii_done"
    /\ \E i, j \in NodeLines :
          /\ i < j
          /\ out[i].node = out[j].node
          /\ out[i].anc # <<>> /\ out[j].anc # <<>>
          /\ out[i].anc[1] = out[j].anc[1]
          /\ ~IsPrefix(out[i].anc, out[j].anc)
          /\ ~Marked(i) /\ ~Marked(j)
          /\ get_targets(g, out[j].node) # {}
          /\ \E k \in NodeLines : k > j /\ out[k].anc = PathOf(j) /\ ~Marked(k)

----------------------------------------------------------------------------
(* graph/model.py, the queries.  A query hands an object to its caller.  The
   model records with the value whether the object is one the graph itself
   holds: top says that the returned set or dict is the graph's own, inner
   names the keys of a returned dict whose value sets are the graph's own.  A
   `.copy()`, a comprehension or a set operation builds a new object. *)

Returned(name, arg, kind, val, top, inner) ==
    [name |-> name, arg |-> arg, kind |-> kind, val |-> val, top |-> top, inner |-> inner]

\* the slip: a node's reference to itself is not counted as a reference to it
get_roots_but_self(G) ==
    G.nodes \ UNION {G.edges[i].v \ {G.edges[i].k} : i \in DOMAIN G.edges}

\* ReferenceGraph.get_roots
get_roots(G) == G.nodes \ UNION {G.edges[i].v : i \in DOMAIN G.edges}

\* ReferenceGraph.get_sources
get_sources(G, target) == {G.edges[i].k : i \in {j \in DOMAIN G.edges : target \in G.edges[j].v}}

\* the copy made by a dict comprehension with v.copy()
CopyDict(d) == [i \in DOMAIN d |-> [k |-> d[i].k, v |-> d[i].v]]

\* the slip: dict(self._missing), a new dict that holds the graph's own sets
missing_property_shallow(G) ==
    Returned("missing", NoPath, "dict", G.missing, FALSE, DictKeys(G.missing))

nodes_property(G) == Returned("nodes", NoPath, "set", G.nodes, FALSE, {})
edges_property(G) == Returned("edges", NoPath, "dict", CopyDict(G.edges), FALSE, {})
missing_property(G) == Returned("missing", NoPath, "dict", CopyDict(G.missing), FALSE, {})
remote_property(G) == Returned("remote", NoPath, "dict", CopyDict(G.remote), FALSE, {})
templates_property(G) == Returned("templates", NoPath, "dict", CopyDict(G.templates), FALSE, {})

QueryNames ==
    {"nodes", "edges", "missing", "remote", "templates", "get_targets", "get_sources",
     "get_missing", "get_remote", "get_templates", "get_roots", "get_connected_nodes"}

\* the queries that take a path
TakesPath(name) ==
    name \in {"get_targets", "get_sources", "get_missing", "get_remote", "get_templates"}

\* the queries whose sets hold paths; the others hold strings
HoldsPaths(name) ==
    name \in {"nodes", "edges", "get_targets", "get_sources", "get_roots",
              "get_connected_nodes"}

Query(G, name, arg) ==
    CASE name = "nodes" -> nodes_property(G)
      [] name = "edges" -> edges_property(G)
      [] name = "missing" -> missing_property(G)
      [] name = "remote" -> remote_property(G)
      [] name = "templates" -> templates_property(G)
      [] name = "get_targets" -> Returned(name, arg, "set", get_targets(G, arg), FALSE, {})
      [] name = "get_sources" -> Returned(name, arg, "set", get_sources(G, arg), FALSE, {})
      [] name = "get_missing" -> Returned(name, arg, "set", get_missing(G, arg), FALSE, {})
      [] name = "get_remote" -> Returned(name, arg, "set", get_remote(G, arg), FALSE, {})
      [] name = "get_templates" -> Returned(name, arg, "set", get_templates(G, arg), FALSE, {})
      [] name = "get_roots" -> Returned(name, arg, "set", get_roots(G), FALSE, {})
      [] name = "get_connected_nodes" ->
             Returned(name, arg, "set", get_connected_nodes(G), FALSE, {})

\* what a caller does to a set: s.add(x) or s.clear()
OpSet(s, op) == IF op.do = "add" THEN s \cup {op.x} ELSE {}

DictOp(d, key, op) ==
    [i \in DOMAIN d |-> IF d[i].k = key THEN [k |-> key, v |-> OpSet(d[i].v, op)] ELSE d[i]]

\* del d[key]
DictDel(d, key) == SelectSeq(d, LAMBDA e : e.k # key)

\* the field of the graph a query reads
FieldOf(name) ==
    CASE name \in {"edges", "get_targets"} -> "edges"
      [] name \in {"missing", "get_missing"} -> "missing"
      [] name \in {"remote", "get_remote"} -> "remote"
      [] name \in {"templates", "get_templates"} -> "templates"
      [] OTHER -> "nodes"

\* the graph after the caller changed the returned set r: changed with it where
\* the set is the graph's own
GraphAfterSetOp(G, r, op) ==
    IF ~r.top THEN G
    ELSE IF FieldOf(r.name) = "nodes" THEN [G EXCEPT !.nodes = OpSet(@, op)]
    ELSE [G EXCEPT ![FieldOf(r.name)] = DictOp(@, r.arg, op)]

\* ... changed the value set at key of the returned dict r
GraphAfterInnerOp(G, r, key, op) ==
    IF key \in r.inner THEN [G EXCEPT ![FieldOf(r.name)] = DictOp(@, key, op)] ELSE G

\* ... deleted key from the returned dict r
GraphAfterDel(G, r, key) ==
    IF r.top THEN [G EXCEPT ![FieldOf(r.name)] = DictDel(@, key)] ELSE G

----------------------------------------------------------------------------
(* Specification SpecQuery: a caller queries a graph and changes what it got.
   out holds the object last returned, ops counts the changes made to it. *)

\* most changes a caller makes to one returned object
MaxMutations == 2

QueryGraphs ==
    {WithExtra(GraphOf(EmptyGraph, E), x) : E \in EdgeSetsUpTo(1), x \in Extras}

S_other == <<"o", "t", "h", "e", "r", ".", "y", "a", "m", "l">>

\* what the caller adds: a path to a set of paths, a string to a set of strings
SetOps(name) ==
    {[do |-> "clear", x |-> <<>>],
     [do |-> "add", x |-> IF HoldsPaths(name) THEN <<S_repo, S_other>> ELSE S_other]}

InitQuery ==
    /\ g \in QueryGraphs
    /\ ops = 0
    /\ pc = [at |-> "api"]
    /\ fs = NoFs
    /\ todo = <<>>
    /\ scanned = <<>>
    /\ cli = NoCli
    /\ status = "none"
    /\ out = <<>>

\* a query is called and its result kept
QueryCall ==
    /\ \E name \in QueryNames :
          \E arg \in (IF TakesPath(name) THEN AsciiNodes ELSE {NoPath}) :
              out' = <<Query(g, name, arg)>>
    /\ ops' = 0
    /\ status' = "query"
    /\ UNCHANGED <<g, pc, fs, todo, scanned, cli>>

\* the caller adds to or clears the returned set
MutateSet ==
    /\ out # <<>>
    /\ out[1].kind = "set"
    /\ ops < MaxMutations
    /\ \E op \in SetOps(out[1].name) :
          /\ out' = <<[out[1] EXCEPT !.val = OpSet(@, op)]>>
          /\ g' = GraphAfterSetOp(g, out[1], op)
    /\ ops' = ops + 1
    /\ status' = "mutate"
    /\ UNCHANGED <<pc, fs, todo, scanned, cli>>

\* the caller adds to or clears a value set of the returned dict
MutateInner ==
    /\ out # <<>>
    /\ out[1].kind = "dict"
    /\ ops < MaxMutations
    /\ \E key \in DictKeys(out[1].val), op \in SetOps(out[1].name) :
          /\ out' = <<[out[1] EXCEPT !.val = DictOp(@, key, op)]>>
          /\ g' = GraphAfterInnerOp(g, out[1], key, op)
    /\ ops' = ops + 1
    /\ status' = "mutate"
    /\ UNCHANGED <<pc, fs, todo, scanned, cli>>

\* the caller deletes a key of the returned dict
MutateDict ==
    /\ out # <<>>
    /\ out[1].kind = "dict"
    /\ ops < MaxMutations
    /\ \E key \in DictKeys(out[1].val) :
          /\ out' = <<[out[1] EXCEPT !.val = DictDel(@, key), !.inner = @ \ {key}]>>
          /\ g' = GraphAfterDel(g, out[1], key)
    /\ ops' = ops + 1
    /\ status' = "mutate"
    /\ UNCHANGED <<pc, fs, todo, scanned, cli>>

NextQuery == QueryCall \/ MutateSet \/ MutateInner \/ MutateDict

SpecQuery == InitQuery /\ [][NextQuery]_vars

\* every query with every argument
AllQueries ==
    {<<name, arg>> : name \in {n \in QueryNames : ~TakesPath(n)}, arg \in {NoPath}}
        \cup {<<name, arg>> : name \in {n \in QueryNames : TakesPath(n)}, arg \in AsciiNodes}

\* C11: a change the caller makes to a returned set or dict, or to a value set
\* of a returned dict, leaves the graph's state and the value of every later
\* query as they were.
C11_QueriesReturnSnapshots ==
    [][status' = "mutate" =>
          /\ g' = g
          /\ \A q \in AllQueries : Query(g', q[1], q[2]).val = Query(g, q[1], q[2]).val]_vars

\* the case of test_missing_property: a value set of the dict returned by
\* `missing` was added to, and get_missing does not show the addition
C11_Witness ==
    /\ status = "mutate"
    /\ out[1].name = "missing"
    /\ \E key \in DictKeys(out[1].val) :
          /\ S_other \in DictGet(out[1].val, key)
          /\ S_other \notin get_missing(g, key)
          /\ get_missing(g, key) # {}

----------------------------------------------------------------------------
(* exporters/json_exporter.py.  to_json returns json.dumps(data); the model
   keeps the JSON document the text denotes: a value is a record of its kind
   ("object", "array", "string", "true") and its content, an object's content
   being its members in the order they are written. *)

JStr(s) == [kind |-> "string", val |-> s]
JTrue == [kind |-> "true", val |-> <<>>]
JArr(items) == [kind |-> "array", val |-> items]
JObj(members) == [kind |-> "object", val |-> members]
JMember(key, value) == [key |-> key, value |-> value]

_get_path_str(path, base, root) ==
    IF IsUnder(PathResolve(path), PathResolve(base)) THEN RelStr(PathResolve(path), PathResolve(base))
    ELSE IF IsUnder(PathResolve(path), PathResolve(root)) THEN RelStr(PathResolve(path), PathResolve(root))
    ELSE <<"/">> \o JoinPath(path)

\* the slip: an edge is written as the list [source, target]
JsonEdge_as_list(source_str, target_str) == JArr(<<JStr(source_str), JStr(target_str)>>)

\* line 45: {"source": source_str, "target": target_str}
JsonEdge(source_str, target_str) ==
    JObj(<<JMember("source", JStr(source_str)), JMember("target", JStr(target_str))>>)

\* lines 51 and 57: an edge object with the flag "missing" or "remote"
JsonFlaggedEdge(source_str, target, flag) ==
    JObj(<<JMember("source", JStr(source_str)), JMember("target", JStr(target)),
           JMember(flag, JTrue)>>)

to_json(G, root, base, include_missing, include_remote) ==
    LET sorted_nodes == SortedPaths(G.nodes)
        nodes == [i \in 1..Len(sorted_nodes) |-> JStr(_get_path_str(sorted_nodes[i], base, root))]
        es == iter_edges(G)
        ms == IF include_missing THEN iter_missing(G) ELSE <<>>
        rs == IF include_remote THEN iter_remote(G) ELSE <<>>
        edges ==
            [i \in 1..Len(es) |->
                JsonEdge(_get_path_str(es[i][1], base, root), _get_path_str(es[i][2], base, root))]
            \o [i \in 1..Len(ms) |->
                JsonFlaggedEdge(_get_path_str(ms[i][1], base, root), ms[i][2], "missing")]
            \o [i \in 1..Len(rs) |->
                JsonFlaggedEdge(_get_path_str(rs[i][1], base, root), rs[i][2], "remote")]
    IN  JObj(<<JMember("nodes", JArr(nodes)), JMember("edges", JArr(edges))>>)

----------------------------------------------------------------------------
(* Specification SpecJson: to_json on a graph.  The graph has at most
   MaxJsonEdges resolved edges over ExportNodes, with or without references of
   the other categories; cli holds the arguments of the call, out the document
   returned. *)

\* most resolved edges of an exported graph
MaxJsonEdges == 2

S_opt == <<"o", "p", "t">>
P_bj == <<S_repo, S_bj>>
X_c == <<S_opt, S_c>>

\* nodes under the root, under a directory of it, and outside it
ExportNodes == {P_a, P_bj, F_db, X_c}

\* the display bases: the root, a directory of it, a directory outside it
ExportBases == {RepoRoot, <<S_repo, S_d>>, <<S_opt>>}

RECURSIVE ExportEdgeSetsUpTo(_)
ExportEdgeSetsUpTo(n) ==
    IF n = 0 THEN {{}}
    ELSE LET S == ExportEdgeSetsUpTo(n - 1)
         IN  S \cup {s \cup {e} : s \in S, e \in ExportNodes \X ExportNodes}

\* two missing, a remote and a template reference
WithRefs(G) ==
    add_template(add_remote(add_missing(add_missing(G, P_a, S_x), F_db, S_x), P_a, S_u),
                 F_db, S_x)

ExportGraphs ==
    UNION {{GraphOf(EmptyGraph, E), WithRefs(GraphOf(EmptyGraph, E))} :
              E \in ExportEdgeSetsUpTo(MaxJsonEdges)}

JsonArgs ==
    [root : {RepoRoot}, base : ExportBases, include_missing : BOOLEAN,
     include_remote : BOOLEAN]

InitJson ==
    /\ g \in ExportGraphs
    /\ cli \in JsonArgs
    /\ ops = 0
    /\ pc = [at |-> "to_json"]
    /\ fs = NoFs
    /\ todo = <<>>
    /\ scanned = <<>>
    /\ status = "none"
    /\ out = <<>>

ToJson ==
    /\ pc.at = "to_json"
    /\ out' = to_json(g, cli.root, cli.base, cli.include_missing, cli.include_remote)
    /\ pc' = [at |-> "json_done"]
    /\ UNCHANGED <<g, ops, fs, todo, scanned, cli, status>>

NextJson == ToJson

SpecJson == InitJson /\ [][NextJson]_vars

\* the value of member key of object o
JGet(o, key) == (CHOOSE m \in Range(o.val) : m.key = key).value

JHas(o, key) == o.kind = "object" /\ \E m \in Range(o.val) : m.key = key

\* the "edges" array of the returned document
JsonEdges == JGet(out, "edges").val

\* the name the document gives a node
JsonName(n) == _get_path_str(n, cli.base, cli.root)

C13_JsonEdgeLists ==
    pc.at = "json_done" =>
        \A e \in EdgePairs(g) :
            \E i \in 1..Len(JsonEdges) :
                JsonEdges[i] = JArr(<<JStr(JsonName(e[1])), JStr(JsonName(e[2]))>>)

----------------------------------------------------------------------------
(* to_ascii as a function of the graph and the arguments: the steps of the
   renderer run to the end.  st holds the root nodes still to render, visited,
   the open _render_node calls and the lines. *)

\* one step: the call on the next root node (lines 81-97), the call on the next
\* child of the innermost open call (lines 183-207), or its return (lines 209-253,
\* 99-101)
RenderStep(G, args, st) ==
    IF st.stack = <<>>
    THEN LET r == Enter(G, Head(st.roots), <<>>, TRUE, TRUE,
                        [visited |-> {}, stack |-> <<>>, lines |-> st.lines], args)
         IN  [roots |-> Tail(st.roots), visited |-> r.visited, stack |-> r.stack,
              lines |-> r.lines]
    ELSE LET f == st.stack[Len(st.stack)]
         IN  IF f.children # <<>>
             THEN LET item_index == f.item_index + 1
                      stack1 == [st.stack EXCEPT ![Len(st.stack)] =
                                    [f EXCEPT !.children = Tail(@), !.item_index = item_index]]
                      r == Enter(G, Head(f.children), NewPrefix(f), item_index = f.total_items,
                                 FALSE,
                                 [visited |-> st.visited, stack |-> stack1, lines |-> st.lines],
                                 args)
                  IN  [st EXCEPT !.visited = r.visited, !.stack = r.stack, !.lines = r.lines]
             ELSE LET r == Leave([visited |-> st.visited, stack |-> st.stack,
                                  lines |-> st.lines])
                  IN  [st EXCEPT !.visited = r.visited, !.stack = r.stack,
                                 !.lines = IF r.stack = <<>> /\ st.roots # <<>>
                                           THEN Append(r.lines, BlankLine) ELSE r.lines]

RECURSIVE RunRender(_, _, _)
RunRender(G, args, st) ==
    IF st.stack = <<>> /\ st.roots = <<>> THEN st.lines
    ELSE RunRender(G, args, RenderStep(G, args, st))

\* the lines to_ascii joins and returns (lines 48-103)
to_ascii(G, args) ==
    RunRender(G, args, [roots |-> RootNodes(G, args.show_all), visited |-> {},
                        stack |-> <<>>, lines |-> <<>>])

----------------------------------------------------------------------------
(* The category switches *)

WithSwitchOff(args, s) == [args EXCEPT ![s] = FALSE]

TagOf(s) ==
    CASE s = "include_missing" -> " [MISSING]"
      [] s = "include_remote" -> " [REMOTE]"
      [] s = "include_templates" -> " [TEMPLATE]"

\* a line without what draws the tree: its nesting depth stands for the prefix
\* and the connector
Shape(l) ==
    [kind |-> l.kind, depth |-> Len(l.prefix), top |-> (l.connector = ""),
     text |-> l.text, tag |-> l.tag, node |-> l.node, anc |-> l.anc]

Shapes(lines) == [i \in 1..Len(lines) |-> Shape(lines[i])]

WithoutTag(lines, tag) == SelectSeq(lines, LAMBDA l : l.tag # tag)

JsonEdgesOf(G, args, im, ir) == JGet(to_json(G, args.root, args.base, im, ir), "edges").val

JsonWithoutFlag(edges, flag) == SelectSeq(edges, LAMBDA e : ~JHas(e, flag))

\* the edges of to_json with one switch off are those with both on, less the
\* edges that carry the switch's flag
JsonSwitchesIndependent ==
    /\ JsonEdgesOf(g, cli, FALSE, TRUE)
           = JsonWithoutFlag(JsonEdgesOf(g, cli, TRUE, TRUE), "missing")
    /\ JsonEdgesOf(g, cli, TRUE, FALSE)
           = JsonWithoutFlag(JsonEdgesOf(g, cli, TRUE, TRUE), "remote")
    /\ JsonEdgesOf(g, cli, FALSE, FALSE)
           = JsonWithoutFlag(JsonEdgesOf(g, cli, FALSE, TRUE), "remote")

\* C14 as stated: with a category switch off, the lines of to_ascii are the lines
\* with the switch on less the lines of that category, each other line exactly
\* as it is with the switch on; and likewise the edges of to_json.
C14_SwitchOffLeavesOtherLines ==
    (pc.at = "ascii_done" /\ SwitchesOff(cli) = {}) =>
        /\ \A s \in {"include_missing", "include_remote", "include_templates"} :
              to_ascii(g, WithSwitchOff(cli, s)) = WithoutTag(out, TagOf(s))
        /\ JsonSwitchesIndependent

\* C14 amended: the rendering by steps is to_ascii of the graph and arguments;
\* with a category switch off, the lines of to_ascii are the lines with the
\* switch on less the lines of that category, each other line with the same
\* name, tag, node, nesting depth and place in the order (its connector and the
\* guides before it may differ); the edges of to_json with a switch off are the
\* edges with it on less the flagged ones, unchanged.
C14_SwitchOffLeavesOtherContent ==
    pc.at = "ascii_done" =>
        /\ out = to_ascii(g, cli)
        /\ SwitchesOff(cli) = {} =>
              /\ \A s \in {"include_missing", "include_remote", "include_templates"} :
                    LET off == to_ascii(g, WithSwitchOff(cli, s))
                    IN  /\ Shapes(off) = Shapes(WithoutTag(out, TagOf(s)))
                        /\ \A i \in 1..Len(off) : off[i].tag # TagOf(s)
              /\ JsonSwitchesIndependent

\* a rendering in which a missing reference is the last item below a node that
\* has a child: with include_missing off the child's line closes the branch
C14_Witness ==
    /\ pc.at = "ascii_done"
    /\ SwitchesOff(cli) = {}
    /\ \E i \in 1..Len(out) : out[i].tag = " [MISSING]" /\ out[i].connector = "last"
    /\ \E i \in 1..Len(out) : out[i].tag = " [REMOTE]"
    /\ to_ascii(g, WithSwitchOff(cli, "include_missing")) # WithoutTag(out, " [MISSING]")
    /\ Len(JsonEdgesOf(g, cli, FALSE, TRUE)) < Len(JsonEdgesOf(g, cli, TRUE, TRUE))

----------------------------------------------------------------------------
(* Specification SpecResolve: resolve_candidate_path on one candidate.  fs holds
   the root and the regular files that exist, inside the root and outside it;
   cli holds the source file and the candidate, out the value returned. *)

\* strategy 1 (lines 42-48): the file the candidate names from the source's directory
Strategy1(source_file, candidate, root0) ==
    LET r1 == PathResolve(PathResolve(SubSeq(source_file, 1, Len(source_file) - 1))
                          \o ParsePath(LStrip(ReplaceChar(candidate, "\\", "/"), {"/"})))
    IN  IF IsFile(r1) /\ _is_within_repo(r1, PathResolve(root0)) THEN r1 ELSE NoPath

\* strategy 2 (lines 50-56): ... from the repository root
Strategy2(source_file, candidate, root0) ==
    LET r2 == PathResolve(PathResolve(root0)
                          \o ParsePath(LStrip(ReplaceChar(candidate, "\\", "/"), {"/"})))
    IN  IF IsFile(r2) /\ _is_within_repo(r2, PathResolve(root0)) THEN r2 ELSE NoPath

\* a file directly under "/" and the files of the repositories
P_rootb == <<S_bj>>
ResolveFiles == {P_a, P_bj, F_db, F_dc, X_c, P_rootb}

\* the files a reference is resolved from
ResolveSources == {P_a, F_dc}

R_b == <<"b", ".", "j", "s", "o", "n">>
R_db == <<"d", "/", "b", ".", "j", "s", "o", "n">>
R_up_b == <<".", ".", "/", "b", ".", "j", "s", "o", "n">>
R_upup_opt == <<".", ".", "/", ".", ".", "/", "o", "p", "t", "/", "c", ".", "y", "a", "m", "l">>
R_abs_db == <<"/", "r", "e", "p", "o", "/", "d", "/", "b", ".", "j", "s", "o", "n">>
R_abs_opt == <<"/", "o", "p", "t", "/", "c", ".", "y", "a", "m", "l">>
R_slash_db == <<"/", "d", "/", "b", ".", "j", "s", "o", "n">>
R_back == <<".", ".", "\\", "b", ".", "j", "s", "o", "n">>
R_dotdot_a == <<"d", "/", ".", ".", "/", "a", ".", "y", "a", "m", "l">>
R_empty == <<>>
R_c == <<"c", ".", "y", "a", "m", "l">>
R_deep_up == <<"d", "/", ".", ".", "/", ".", ".", "/", "b", ".", "j", "s", "o", "n">>

ResolveCandidates ==
    {R_b, R_db, R_up_b, R_upup_opt, R_abs_db, R_abs_opt, R_slash_db, R_back, R_dotdot_a, R_empty, R_c, R_deep_up}

InitResolve ==
    /\ \E files \in SUBSET ResolveFiles :
          fs = [root |-> RepoRoot, files |-> files, denied |-> {}]
    /\ \E s \in ResolveSources, c \in ResolveCandidates :
          /\ s \in fs.files
          /\ cli = [source_file |-> s, candidate |-> c]
    /\ g = EmptyGraph
    /\ ops = 0
    /\ pc = [at |-> "resolve"]
    /\ todo = <<>>
    /\ scanned = <<>>
    /\ status = "none"
    /\ out = <<>>

Resolve ==
    /\ pc.at = "resolve"
    /\ out' = resolve_candidate_path(cli.source_file, cli.candidate, fs.root)
    /\ pc' = [at |-> "resolved"]
    /\ UNCHANGED <<g, ops, fs, todo, scanned, cli, status>>

NextResolve == Resolve

SpecResolve == InitResolve /\ [][NextResolve]_vars

\* C15: a path returned by resolve_candidate_path is an existing regular file,
\* is canonical (no "." or ".." segment) and has the canonical root as a
\* component-wise prefix; any other return value is None.
C15_ResolvedInsideRoot ==
    (pc.at = "resolved" /\ out # NoPath) =>
        /\ out \in fs.files
        /\ \A i \in 1..Len(out) : out[i] \notin {<<".">>, <<".", ".">>}
        /\ Len(out) > Len(fs.root)
        /\ SubSeq(out, 1, Len(fs.root)) = fs.root

\* a candidate with a ".." segment that names a file outside the root from the
\* root and a file inside it from the source's directory, resolved to the latter
C15_Witness ==
    /\ pc.at = "resolved"
    /\ cli.candidate = R_up_b
    /\ P_rootb \in fs.files
    /\ out = P_bj

\* C16: a candidate that begins with "/" and, read as a literal absolute path,
\* names an existing regular file inside the root is resolved to that file when
\* strategies 1 and 2 fail.
C16_LiteralAbsoluteResolved ==
    LET literal == PathResolve(ParsePath(ReplaceChar(cli.candidate, "\\", "/")))
    IN  (/\ pc.at = "resolved"
         /\ StartsWith(ReplaceChar(cli.candidate, "\\", "/"), <<"/">>)
         /\ literal \in fs.files
         /\ IsUnder(literal, fs.root)
         /\ Strategy1(cli.source_file, cli.candidate, fs.root) = NoPath
         /\ Strategy2(cli.source_file, cli.candidate, fs.root) = NoPath)
        => out = literal

----------------------------------------------------------------------------
(* Specification SpecExtract: extract_candidate_paths on one decoded document.
   cli holds the document (its string leaves with the keys above them), out
   the set of candidates returned. *)

K_setup_cmd == <<"s", "e", "t", "u", "p", "_", "c", "m", "d">>
ExtractKeyChains == {<<K_setup_cmd>>, <<K_config_path>>, <<K_other>>}

\* chmod 600 /test/permissions.yaml
X_chmod == <<"c", "h", "m", "o", "d", " ", "6", "0", "0", " ", "/", "t", "e", "s", "t", "/", "p", "e", "r", "m", "i", "s", "s", "i", "o", "n", "s", ".", "y", "a", "m", "l">>
\* sudo rm -rf /some/path.json
X_sudo_rm == <<"s", "u", "d", "o", " ", "r", "m", " ", "-", "r", "f", " ", "/", "s", "o", "m", "e", "/", "p", "a", "t", "h", ".", "j", "s", "o", "n">>
\* /usr/bin/chmod 600 /file.yaml
X_bin_chmod == <<"/", "u", "s", "r", "/", "b", "i", "n", "/", "c", "h", "m", "o", "d", " ", "6", "0", "0", " ", "/", "f", "i", "l", "e", ".", "y", "a", "m", "l">>
\* rm -rf /tmp/cache.json
X_rm == <<"r", "m", " ", "-", "r", "f", " ", "/", "t", "m", "p", "/", "c", "a", "c", "h", "e", ".", "j", "s", "o", "n">>
\* sudo -u bob cat /srv/app.yaml
X_sudo_u == <<"s", "u", "d", "o", " ", "-", "u", " ", "b", "o", "b", " ", "c", "a", "t", " ", "/", "s", "r", "v", "/", "a", "p", "p", ".", "y", "a", "m", "l">>
\* config/app.yaml
X_app == <<"c", "o", "n", "f", "i", "g", "/", "a", "p", "p", ".", "y", "a", "m", "l">>
\* /test/permissions.yaml
X_perm == <<"/", "t", "e", "s", "t", "/", "p", "e", "r", "m", "i", "s", "s", "i", "o", "n", "s", ".", "y", "a", "m", "l">>
\* chmod
X_bare == <<"c", "h", "m", "o", "d">>

ExtractValues == {X_chmod, X_sudo_rm, X_bin_chmod, X_rm, X_sudo_u, X_app, X_perm, X_bare}

ExtractLeaves == {[keys |-> k, value |-> v] : k \in ExtractKeyChains, v \in ExtractValues}

\* the documents with at most n of these leaves
RECURSIVE ExtractDocsUpTo(_)
ExtractDocsUpTo(n) ==
    IF n = 0 THEN {{}}
    ELSE LET S == ExtractDocsUpTo(n - 1) IN S \cup {s \cup {l} : s \in S, l \in ExtractLeaves}

InitExtract ==
    /\ \E data \in ExtractDocsUpTo(MaxLeaves) : cli = [data |-> data]
    /\ fs = NoFs
    /\ g = EmptyGraph
    /\ ops = 0
    /\ pc = [at |-> "extract"]
    /\ todo = <<>>
    /\ scanned = <<>>
    /\ status = "none"
    /\ out = {}

Extract ==
    /\ pc.at = "extract"
    /\ out' = extract_candidate_paths(cli.data)
    /\ pc' = [at |-> "extracted"]
    /\ UNCHANGED <<g, ops, fs, todo, scanned, cli, status>>

NextExtract == Extract

SpecExtract == InitExtract /\ [][NextExtract]_vars

\* a token that names a command of the fixed set, bare or by the path of its program
NamesCommand(token) ==
    LET parts == Split(RStrip(Lower(token), {"/"}), {"/"})
    IN  Lower(token) \in PATH_COMMANDS \/ parts[Len(parts)] \in PATH_COMMANDS

\* the tokens that follow the command of a value shaped like a shell command:
\* the command is the first token, or the second after sudo or su
ArgumentsOf(value) ==
    LET tokens == SplitWords(value)
    IN  {SubSeq(tokens, p + 1, Len(tokens)) :
            p \in {q \in {1, 2} : /\ q <= Len(tokens)
                                  /\ q = 2 => Lower(tokens[1]) \in {<<"s", "u", "d", "o">>, <<"s", "u">>}
                                  /\ NamesCommand(tokens[q])}}

\* a value shaped like a shell command with a path argument
CommandWithPathArgument(value) ==
    \E args \in ArgumentsOf(value) : \E i \in DOMAIN args : Contains(args[i], <<"/">>)

\* C17: extract_candidate_paths extracts nothing from a value shaped like a
\* shell command with a path argument, neither the whole string nor a token
\* inside it, whatever the key above the value (such a string is returned only
\* when another leaf, not a command, holds it); and from the document
\* {"config_path": "config/app.yaml"} it extracts exactly config/app.yaml.
C17_CommandsNotExtracted ==
    pc.at = "extracted" =>
        /\ \A l \in cli.data :
              CommandWithPathArgument(l.value) =>
                  \A p \in out :
                      (p = l.value \/ p \in Range(SplitWords(l.value))) =>
                          \E m \in cli.data : /\ ~CommandWithPathArgument(m.value)
                                              /\ _clean_path(m.value) = p
        /\ cli.data = {[keys |-> <<K_config_path>>, value |-> X_app]} => out = {X_app}

----------------------------------------------------------------------------
(* Specification SpecCommand: _is_command_with_path_target on one value, put
   together from what stands before the command, the command and what follows
   it.  cli holds the value, out the boolean returned. *)

CommandPrefixes ==
    {<<>>,
      <<"s", "u", "d", "o", " ">>,
      <<"s", "u", " ">>,
      <<"S", "U", "D", "O", " ">>,
      <<" ">>}

CommandWords ==
    {<<"c", "h", "m", "o", "d">>,
      <<"c", "a", "t">>,
      <<"C", "h", "m", "o", "d">>,
      <<"/", "u", "s", "r", "/", "b", "i", "n", "/", "c", "h", "m", "o", "d">>,
      <<"/", "b", "i", "n", "/", "c", "a", "t", "/">>,
      <<"c", "o", "n", "f", "i", "g", "/", "a", "p", "p", ".", "y", "a", "m", "l">>,
      <<"e", "c", "h", "o">>,
      <<"s", "u", "d", "o">>,
      <<>>}

CommandRests ==
    {<<>>,
      <<" ", "6", "0", "0", " ", "/", "f", "i", "l", "e", ".", "y", "a", "m", "l">>,
      <<" ", "-", "r", "f">>,
      <<" ", "\t">>}

CommandValues == {p \o c \o r : p \in CommandPrefixes, c \in CommandWords, r \in CommandRests}

InitCommand ==
    /\ \E v \in CommandValues : cli = [value |-> v]
    /\ fs = NoFs
    /\ g = EmptyGraph
    /\ ops = 0
    /\ pc = [at |-> "test"]
    /\ todo = <<>>
    /\ scanned = <<>>
    /\ status = "none"
    /\ out = FALSE

IsCommand ==
    /\ pc.at = "test"
    /\ out' = _is_command_with_path_target(cli.value)
    /\ pc' = [at |-> "tested"]
    /\ UNCHANGED <<g, ops, fs, todo, scanned, cli, status>>

NextCommand == IsCommand

SpecCommand == InitCommand /\ [][NextCommand]_vars

\* C18: _is_command_with_path_target returns true only when a command of the
\* fixed set (first token, or second after sudo or su, bare or as the path of
\* its program) is followed by at least one further token; and a command with
\* nothing after it is not filtered, alone or behind sudo or su.
C18_OnlyCommandsWithArguments ==
    pc.at = "tested" =>
        /\ out => \E args \in ArgumentsOf(cli.value) : args # <<>>
        /\ <<>> \in ArgumentsOf(cli.value) => ~out

----------------------------------------------------------------------------
(* Specification SpecTemplate: is_template_path on one candidate, put together
   from plain text and brace markers in either order.  cli holds the candidate,
   out the boolean returned. *)

TemplateTexts == {<<>>, <<"x">>, <<"t", "/">>}

TemplateMarkers == {<<"{", "{", " ">>, <<" ", "}", "}">>, <<"{", "{">>, <<"}", "}">>, <<>>}

TemplateCandidates ==
    {a \o m \o b \o n \o c : a, b, c \in TemplateTexts, m, n \in TemplateMarkers}

InitTemplate ==
    /\ \E c \in TemplateCandidates : cli = [candidate |-> c]
    /\ fs = NoFs
    /\ g = EmptyGraph
    /\ ops = 0
    /\ pc = [at |-> "test"]
    /\ todo = <<>>
    /\ scanned = <<>>
    /\ status = "none"
    /\ out = FALSE

IsTemplate ==
    /\ pc.at = "test"
    /\ out' = is_template_path(cli.candidate)
    /\ pc' = [at |-> "tested"]
    /\ UNCHANGED <<g, ops, fs, todo, scanned, cli, status>>

NextTemplate == IsTemplate

SpecTemplate == InitTemplate /\ [][NextTemplate]_vars

\* the positions of s at which p occurs
OccurrencesOf(s, p) ==
    {i \in 1..(Len(s) - Len(p) + 1) : SubSeq(s, i, i + Len(p) - 1) = p}

\* C19: is_template_path(s) is true exactly when "{{ " occurs in s and " }}"
\* occurs later in s than that occurrence; with " }}" only before "{{ " the
\* string is not a template.
C19_OpenBeforeClose ==
    pc.at = "tested" =>
        out = (\E i \in OccurrencesOf(cli.candidate, <<"{", "{", " ">>) :
                  \E j \in OccurrencesOf(cli.candidate, <<" ", "}", "}">>) : i < j)

----------------------------------------------------------------------------
(* exporters/mermaid_exporter.py.  The flowchart is the sequence of its lines;
   a line is [kind, indent, id, text]: the declaration of a node (id, label),
   an edge (id of the source, text the id of the target), a style, a subgraph
   (id, title), a comment, "end", a blank line, and the first line with the
   orientation as text. *)

MLine(kind, indent, id, text) == [kind |-> kind, indent |-> indent, id |-> id, text |-> text]

MBlank == MLine("blank", 0, <<>>, <<>>)

\* the sequences of a sequence, one after the other
RECURSIVE ConcatAll(_)
ConcatAll(ss) == IF ss = <<>> THEN <<>> ELSE Head(ss) \o ConcatAll(Tail(ss))

IsAlpha(c) == (Ord(c) >= 65 /\ Ord(c) <= 90) \/ (Ord(c) >= 97 /\ Ord(c) <= 122)

_sanitize_id_simple(value) ==
    LET replaced == [i \in 1..Len(value) |->
                        IF value[i] \in {"/", "\\", ".", "-"} THEN "_" ELSE value[i]]
        kept == SelectSeq(replaced, IsWordChar)
        sanitized == IF kept # <<>> /\ ~IsAlpha(kept[1]) THEN <<"n", "_">> \o kept ELSE kept
    IN  IF sanitized = <<>> THEN <<"u", "n", "k", "n", "o", "w", "n">> ELSE sanitized

_sanitize_id(path, root) ==
    IF IsUnder(PathResolve(path), PathResolve(root))
    THEN _sanitize_id_simple(RelStr(PathResolve(path), PathResolve(root)))
    ELSE _sanitize_id_simple(<<"/">> \o JoinPath(path))

_get_label(path, root) ==
    IF IsUnder(PathResolve(path), PathResolve(root))
    THEN RelStr(PathResolve(path), PathResolve(root))
    ELSE <<"/">> \o JoinPath(path)

\* the second components of the pairs an iterator yields, as a set
Referenced(pairs) == {pairs[i][2] : i \in 1..Len(pairs)}

\* the declarations of the missing or remote references (sorted), each with its style
ReferenceNodes(names, id_prefix, tag, style, indent) ==
    LET sorted == SortedStrs(names)
    IN  ConcatAll([i \in 1..Len(sorted) |->
            <<MLine("node", indent, _sanitize_id_simple(id_prefix \o sorted[i]), sorted[i] \o tag),
              MLine("style", indent, _sanitize_id_simple(id_prefix \o sorted[i]), style)>>])

MissingNodes(missing, indent) ==
    ReferenceNodes(missing, <<"m", "i", "s", "s", "i", "n", "g", "_">>, <<" ", "[", "M", "I", "S", "S", "I", "N", "G", "]">>,
                   <<"s", "t", "r", "o", "k", "e", ":", "#", "f", "f", "0", "0", "0", "0", ",", "s", "t", "r", "o", "k", "e", "-", "d", "a", "s", "h", "a", "r", "r", "a", "y", ":", " ", "5", " ", "5">>, indent)

RemoteNodes(remote, indent) ==
    ReferenceNodes(remote, <<"r", "e", "m", "o", "t", "e", "_">>, <<" ", "[", "R", "E", "M", "O", "T", "E", "]">>,
                   <<"s", "t", "r", "o", "k", "e", ":", "#", "0", "0", "6", "6", "c", "c", ",", "s", "t", "r", "o", "k", "e", "-", "d", "a", "s", "h", "a", "r", "r", "a", "y", ":", " ", "5", " ", "5">>, indent)

\* the lines of the edges: resolved, then missing, then remote (dashed)
MermaidEdges(G, root, include_missing, include_remote) ==
    LET es == iter_edges(G)
        ms == IF include_missing THEN iter_missing(G) ELSE <<>>
        rs == IF include_remote THEN iter_remote(G) ELSE <<>>
    IN  [i \in 1..Len(es) |->
            MLine("edge", 4, _sanitize_id(es[i][1], root), _sanitize_id(es[i][2], root))]
        \o [i \in 1..Len(ms) |->
            MLine("dashed", 4, _sanitize_id(ms[i][1], root),
                  _sanitize_id_simple(<<"m", "i", "s", "s", "i", "n", "g", "_">> \o ms[i][2]))]
        \o [i \in 1..Len(rs) |->
            MLine("dashed", 4, _sanitize_id(rs[i][1], root),
                  _sanitize_id_simple(<<"r", "e", "m", "o", "t", "e", "_">> \o rs[i][2]))]

NodeDeclarations(nodes, root, indent) ==
    LET sorted == SortedPaths(nodes)
    IN  [i \in 1..Len(sorted) |->
            MLine("node", indent, _sanitize_id(sorted[i], root), _get_label(sorted[i], root))]

_generate_flat_mermaid(G, root, include_missing, include_remote) ==
    LET missing == IF include_missing THEN Referenced(iter_missing(G)) ELSE {}
        remote == IF include_remote THEN Referenced(iter_remote(G)) ELSE {}
    IN  NodeDeclarations(G.nodes, root, 4)
        \o (IF missing # {}
            THEN <<MBlank, MLine("comment", 4, <<>>, <<"M", "i", "s", "s", "i", "n", "g", " ", "r", "e", "f", "e", "r", "e", "n", "c", "e", "s">>)>>
                 \o MissingNodes(missing, 4)
            ELSE <<>>)
        \o (IF remote # {}
            THEN <<MBlank, MLine("comment", 4, <<>>, <<"R", "e", "m", "o", "t", "e", " ", "r", "e", "f", "e", "r", "e", "n", "c", "e", "s">>)>>
                 \o RemoteNodes(remote, 4)
            ELSE <<>>)
        \o <<MBlank>>
        \o MermaidEdges(G, root, include_missing, include_remote)

\* the group of a node: its top-level directory, "root" for a file of the root,
\* "external" for a file outside it
GroupOf(node, root) ==
    IF IsUnder(PathResolve(node), PathResolve(root))
    THEN LET parts == SubSeq(PathResolve(node), Len(PathResolve(root)) + 1,
                             Len(PathResolve(node)))
         IN  IF Len(parts) > 1 THEN parts[1] ELSE <<"r", "o", "o", "t">>
    ELSE <<"e", "x", "t", "e", "r", "n", "a", "l">>

_generate_grouped_mermaid(G, root, include_missing, include_remote) ==
    LET missing == IF include_missing THEN Referenced(iter_missing(G)) ELSE {}
        remote == IF include_remote THEN Referenced(iter_remote(G)) ELSE {}
        names == SortedStrs({GroupOf(n, root) : n \in G.nodes})
    IN  ConcatAll([i \in 1..Len(names) |->
            <<MLine("subgraph", 4, _sanitize_id_simple(names[i]), names[i])>>
            \o NodeDeclarations({n \in G.nodes : GroupOf(n, root) = names[i]}, root, 8)
            \o <<MLine("end", 4, <<>>, <<>>), MBlank>>])
        \o (IF missing # {}
            THEN <<MLine("subgraph", 4, <<"m", "i", "s", "s", "i", "n", "g">>, <<"M", "i", "s", "s", "i", "n", "g", " ", "R", "e", "f", "e", "r", "e", "n", "c", "e", "s">>)>>
                 \o MissingNodes(missing, 8)
                 \o <<MLine("end", 4, <<>>, <<>>), MBlank>>
            ELSE <<>>)
        \o (IF remote # {}
            THEN <<MLine("subgraph", 4, <<"r", "e", "m", "o", "t", "e">>, <<"R", "e", "m", "o", "t", "e", " ", "R", "e", "f", "e", "r", "e", "n", "c", "e", "s">>)>>
                 \o RemoteNodes(remote, 8)
                 \o <<MLine("end", 4, <<>>, <<>>), MBlank>>
            ELSE <<>>)
        \o MermaidEdges(G, root, include_missing, include_remote)

\* base is accepted and set to root when None (lines 34-35), and not read again
to_mermaid(G, root, orientation, base, group_by_directory, include_missing, include_remote) ==
    <<MLine("flowchart", 0, <<>>, orientation)>>
    \o (IF group_by_directory
        THEN _generate_grouped_mermaid(G, root, include_missing, include_remote)
        ELSE _generate_flat_mermaid(G, root, include_missing, include_remote))

----------------------------------------------------------------------------
(* Specification SpecExport: one of the three exporters is called on a graph
   with a display base.  cli holds the arguments, pc.format the exporter that
   ran, out what it returned. *)

ExportArgs ==
    [root : {RepoRoot}, base : ExportBases, style : {"tree"}, show_all : BOOLEAN,
     include_missing : {TRUE}, include_remote : {TRUE}, include_templates : {FALSE},
     orientation : {<<"L", "R">>}, group_by_directory : BOOLEAN]

InitExport ==
    /\ g \in ExportGraphs
    /\ cli \in ExportArgs
    /\ ops = 0
    /\ pc = [at |-> "export", format |-> "none"]
    /\ fs = NoFs
    /\ todo = <<>>
    /\ scanned = <<>>
    /\ status = "none"
    /\ out = <<>>

ExportAscii ==
    /\ pc.at = "export"
    /\ out' = to_ascii(g, cli)
    /\ pc' = [at |-> "exported", format |-> "ascii"]
    /\ UNCHANGED <<g, ops, fs, todo, scanned, cli, status>>

ExportJson ==
    /\ pc.at = "export"
    /\ out' = to_json(g, cli.root, cli.base, cli.include_missing, cli.include_remote)
    /\ pc' = [at |-> "exported", format |-> "json"]
    /\ UNCHANGED <<g, ops, fs, todo, scanned, cli, status>>

ExportMermaid ==
    /\ pc.at = "export"
    /\ out' = to_mermaid(g, cli.root, cli.orientation, cli.base, cli.group_by_directory,
                         cli.include_missing, cli.include_remote)
    /\ pc' = [at |-> "exported", format |-> "mermaid"]
    /\ UNCHANGED <<g, ops, fs, todo, scanned, cli, status>>

NextExport == ExportAscii \/ ExportJson \/ ExportMermaid

SpecExport == InitExport /\ [][NextExport]_vars

\* the name of a node: relative to the base, else to the root, else the absolute path
DisplayName(node) ==
    IF IsUnder(node, cli.base) THEN JoinPath(SubSeq(node, Len(cli.base) + 1, Len(node)))
    ELSE IF IsUnder(node, cli.root) THEN JoinPath(SubSeq(node, Len(cli.root) + 1, Len(node)))
    ELSE <<"/">> \o JoinPath(node)

\* the names the tree gives its nodes are the display names
AsciiNamesFromBase ==
    \A i \in 1..Len(out) : out[i].kind = "node" => out[i].text = DisplayName(out[i].node)

\* the node list of the document holds the display names of the nodes
JsonNamesFromBase ==
    LET sorted == SortedPaths(g.nodes)
    IN  JGet(out, "nodes").val = [i \in 1..Len(sorted) |-> JStr(DisplayName(sorted[i]))]

\* every node is declared in the flowchart with its display name as the label
MermaidNamesFromBase ==
    \A n \in g.nodes :
        \E i \in 1..Len(out) : /\ out[i].kind = "node"
                               /\ out[i].id = _sanitize_id(n, cli.root)
                               /\ out[i].text = DisplayName(n)

\* C20: each of to_ascii, to_json and to_mermaid names a node by its path
\* relative to the display base when the node lies under the base, else
\* relative to the repository root when it lies under the root, else by its
\* absolute path, with forward slashes.
C20_NamedFromBase ==
    pc.at = "exported" =>
        /\ pc.format = "ascii" => AsciiNamesFromBase
        /\ pc.format = "json" => JsonNamesFromBase
        /\ pc.format = "mermaid" => MermaidNamesFromBase
        /\ \A n \in g.nodes : ~Contains(DisplayName(n), <<"\\">>)

----------------------------------------------------------------------------
(* Decode failures in build_graph *)

\* the files scanned so far, in the order they were reached
ScannedFiles == [i \in 1..Len(scanned) |-> scanned[i].file]

\* C21: a file that cannot be decoded stays a node without any resolved edge
\* or missing, remote or template relation from it, and the scan goes on: the
\* files scanned and the files still to scan are always all the files
\* iter_files yields, so the scan ends only when every file has been reached.
C21_DecodeFailureSkipsFile ==
    /\ \A i \in 1..Len(scanned) :
          ~scanned[i].decoded =>
              /\ scanned[i].file \in g.nodes
              /\ get_targets(g, scanned[i].file) = {}
              /\ get_missing(g, scanned[i].file) = {}
              /\ get_remote(g, scanned[i].file) = {}
              /\ get_templates(g, scanned[i].file) = {}
    /\ ScannedFiles \o todo = iter_files(fs.root, fs.include_ext, fs.exclude_dirs, fs.max_depth)
    /\ pc.at = "built" => Range(ScannedFiles) \subseteq g.nodes

\* a scan in which a file failed to decode and a later file gave a resolved edge
C21_Witness ==
    /\ pc.at = "built"
    /\ \E i, j \in 1..Len(scanned) :
          /\ i < j
          /\ ~scanned[i].decoded
          /\ scanned[j].decoded
          /\ get_targets(g, scanned[j].file) # {}

----------------------------------------------------------------------------
(* Roots and reverse adjacency of the graph *)

----------------------------------------------------------------------------
(* Connected nodes and the frame of the add operations *)

\* C27: after any sequence of add operations get_connected_nodes() is exactly
\* the set of nodes with an outgoing resolved edge, an incoming resolved edge,
\* or a missing, remote or template relation; a node that was only added with
\* add_node is not in it, and the result is a subset of the node set.
C27_ConnectedNodes ==
    /\ get_connected_nodes(g) =
          {n \in ApiPaths : \/ \E e \in EdgePairs(g) : e[1] = n \/ e[2] = n
                            \/ \E c \in ApiStrs : \/ c \in get_missing(g, n)
                                                  \/ c \in get_remote(g, n)
                                                  \/ c \in get_templates(g, n)}
    /\ get_connected_nodes(g) \subseteq g.nodes

\* a graph with a node that was only added, a node connected only as the target
\* of an edge, and a missing reference
C27_Witness ==
    /\ g.nodes \ get_connected_nodes(g) # {}
    /\ \E e \in EdgePairs(g) :
          /\ get_targets(g, e[2]) = {}
          /\ get_missing(g, e[2]) = {}
          /\ e[2] \in get_connected_nodes(g)
    /\ DictKeys(g.missing) # {}

\* C30: every source that holds a missing, remote or template relation is in the
\* node set; add_missing, add_remote and add_template each leave the resolved
\* edges and the two other categories as they are; and no operation removes a
\* node, an edge or a relation.
C30_AddsOnlyOwnCategory ==
    /\ [](DictKeys(g.missing) \cup DictKeys(g.remote) \cup DictKeys(g.templates)
             \subseteq g.nodes)
    /\ [][/\ g.nodes \subseteq g'.nodes
          /\ EdgePairs(g) \subseteq EdgePairs(g')
          /\ PairsOf(g.missing) \subseteq PairsOf(g'.missing)
          /\ PairsOf(g.remote) \subseteq PairsOf(g'.remote)
          /\ PairsOf(g.templates) \subseteq PairsOf(g'.templates)
          /\ AddMissing => /\ g'.edges = g.edges
                           /\ g'.remote = g.remote
                           /\ g'.templates = g.templates
          /\ AddRemote => /\ g'.edges = g.edges
                          /\ g'.missing = g.missing
                          /\ g'.templates = g.templates
          /\ AddTemplate => /\ g'.edges = g.edges
                            /\ g'.missing = g.missing
                            /\ g'.remote = g.remote]_vars

\* a graph on which a missing, a remote and a template reference were recorded
C30_Witness ==
    /\ DictKeys(g.missing) # {}
    /\ DictKeys(g.remote) # {}
    /\ DictKeys(g.templates) # {}
    /\ ops = MaxOps

----------------------------------------------------------------------------
(* Specification SpecLadder: resolve_candidate_path in a repository three
   directories deep, with the root at /repo or at /repo/d, where the same name
   can exist in the source's directory, in the root and in the directories
   between and above them.  cli holds the source file and the candidate, out
   the value returned. *)

S_e == <<"e">>
S_s == <<"s", ".", "y", "a", "m", "l">>
L_x == <<S_repo, S_x>>
L_dx == <<S_repo, S_d, S_x>>
L_dex == <<S_repo, S_d, S_e, S_x>>
L_ds == <<S_repo, S_d, S_s>>
L_des == <<S_repo, S_d, S_e, S_s>>

LadderRoots == {RepoRoot, <<S_repo, S_d>>}
LadderSources == {L_ds, L_des}
LadderTargets == {L_x, L_dx, L_dex}

\* x.json, d/x.json, e/x.json, ../x.json
LadderCandidates ==
    {S_x, <<"d", "/", "x", ".", "j", "s", "o", "n">>, <<"e", "/", "x", ".", "j", "s", "o", "n">>, <<".", ".", "/", "x", ".", "j", "s", "o", "n">>}

InitLadder ==
    /\ \E root \in LadderRoots, files \in SUBSET LadderTargets :
          fs = [root |-> root, files |-> files \cup LadderSources, denied |-> {}]
    /\ \E s \in LadderSources, c \in LadderCandidates :
          cli = [source_file |-> s, candidate |-> c]
    /\ g = EmptyGraph
    /\ ops = 0
    /\ pc = [at |-> "resolve"]
    /\ todo = <<>>
    /\ scanned = <<>>
    /\ status = "none"
    /\ out = <<>>

NextLadder == Resolve

SpecLadder == InitLadder /\ [][NextLadder]_vars

\* the directory of the source file
SourceDir == SubSeq(cli.source_file, 1, Len(cli.source_file) - 1)

\* the ancestors of dir from the nearest upward, as far as they lie inside the root
RECURSIVE AncestorsInside(_)
AncestorsInside(dir) ==
    IF dir = <<>> \/ ~IsUnder(SubSeq(dir, 1, Len(dir) - 1), fs.root) THEN <<>>
    ELSE <<SubSeq(dir, 1, Len(dir) - 1)>> \o AncestorsInside(SubSeq(dir, 1, Len(dir) - 1))

\* the directories the candidate is tried from, in the order of the strategies
Ladder == <<SourceDir, fs.root>> \o AncestorsInside(SourceDir)

\* the file the candidate names from dir
Names(dir) == PathResolve(dir \o ParsePath(cli.candidate))

\* dir gives a hit: the file exists and lies inside the root
Hit(dir) == Names(dir) \in fs.files /\ IsUnder(Names(dir), fs.root)

\* C23: resolve_candidate_path tries the source file's directory, then the
\* root, then the ancestors of the source directory upward as far as they lie
\* inside the root, and returns the first hit; when the candidate names a file
\* both from the source directory and from the root, the file of the source
\* directory is returned.
C23_FirstHitInOrder ==
    pc.at = "resolved" =>
        /\ \A i \in 1..Len(Ladder) :
              (Hit(Ladder[i]) /\ \A j \in 1..(i - 1) : ~Hit(Ladder[j])) => out = Names(Ladder[i])
        /\ (\A i \in 1..Len(Ladder) : ~Hit(Ladder[i])) => out = NoPath
        /\ (Hit(SourceDir) /\ Hit(fs.root)) => out = Names(SourceDir)

\* the candidate names one file from the source directory and another from the
\* root, and the file of the source directory is returned
C23_Witness ==
    /\ pc.at = "resolved"
    /\ Hit(SourceDir)
    /\ Hit(fs.root)
    /\ Names(SourceDir) # Names(fs.root)
    /\ out = Names(SourceDir)

----------------------------------------------------------------------------
(* URLs in build_graph *)

\* C24: every URL extracted from a file is a remote relation of that file; it
\* is a template relation of the file as well exactly when it is
\* template-shaped; and no URL is resolved: the resolved edges of a file are
\* the files its candidates resolve to, and a URL is a missing relation of the
\* file only when the same string is among the file's candidates.
C24_UrlsRemoteNeverResolved ==
    \A e \in Decoded :
        /\ \A u \in e.urls :
              /\ u \in get_remote(g, e.file)
              /\ u \in get_templates(g, e.file) <=> is_template_path(u)
              /\ u \in get_missing(g, e.file) => u \in CandidatesOf(e)
        /\ get_remote(g, e.file) = e.urls
        /\ get_targets(g, e.file) \subseteq {ResolvedOf(e, c) : c \in CandidatesOf(e)}

\* a scanned file with a template-shaped URL and a plain one
C24_Witness ==
    /\ pc.at = "built"
    /\ \E e \in Decoded :
          /\ \E u \in e.urls : is_template_path(u) /\ u \in get_templates(g, e.file)
          /\ \E u \in e.urls : ~is_template_path(u) /\ u \notin get_templates(g, e.file)

----------------------------------------------------------------------------
(* The roots of the rendered tree *)

\* the nodes in scope: all nodes with show_all, else the nodes with an edge or a
\* missing, remote or template relation
InScope ==
    IF cli.show_all THEN g.nodes
    ELSE {n \in g.nodes : \/ \E e \in EdgePairs(g) : e[1] = n \/ e[2] = n
                          \/ get_missing(g, n) # {}
                          \/ get_remote(g, n) # {}
                          \/ get_templates(g, n) # {}}

Unreferenced == {n \in InScope : \A e \in EdgePairs(g) : e[2] # n}

Referencing == {n \in InScope : \E e \in EdgePairs(g) : e[1] = n}

\* the nodes of the lines drawn without a connector, in the order of the lines
RootLines == SelectSeq(out, LAMBDA l : l.kind = "node" /\ l.connector = "")

\* C25: the trees to_ascii draws start at the nodes in scope without an incoming
\* resolved edge; if there is none, at the nodes in scope with an outgoing edge;
\* if there is none either, at every node in scope.  There is no tree only when
\* no node is in scope.
C25_RootSelection ==
    pc.at = "ascii_done" =>
        /\ {RootLines[i].node : i \in 1..Len(RootLines)} =
              (IF Unreferenced # {} THEN Unreferenced
               ELSE IF Referencing # {} THEN Referencing
               ELSE InScope)
        /\ RootLines = <<>> => InScope = {}

\* a graph in which every node in scope is referenced: the trees start at the
\* nodes with an outgoing edge
C25_Witness ==
    /\ pc.at = "ascii_done"
    /\ InScope # {}
    /\ Unreferenced = {}
    /\ RootLines # <<>>
    /\ \E n \in InScope : n \notin Referencing

----------------------------------------------------------------------------
(* The items below a node of the rendered tree *)

\* the nesting level of a line: 0 for the line of a root and for a blank line
Level(l) == IF l.connector = "" THEN 0 ELSE Len(l.prefix) + 1

\* the indices of the lines directly below line i, ascending
ItemsBelow(i) ==
    SelectSeq([j \in 1..Len(out) |-> j],
              LAMBDA j : /\ j > i
                         /\ Level(out[j]) = Level(out[i]) + 1
                         /\ \A k \in (i + 1)..(j - 1) : Level(out[k]) > Level(out[i]))

\* what a line shows: the node of a node line, the text and the tag of a reference
Shown(l) == IF l.kind = "node" THEN <<"node", l.node>> ELSE <<l.tag, l.text>>

\* the items of a node in the order of the claim
ItemsOf(n) ==
    LET children == SortedPaths(get_targets(g, n))
        missing == IF cli.include_missing THEN SortedStrs(get_missing(g, n)) ELSE <<>>
        remote == IF cli.include_remote THEN SortedStrs(get_remote(g, n)) ELSE <<>>
        templates == IF cli.include_templates THEN SortedStrs(get_templates(g, n)) ELSE <<>>
    IN  [i \in 1..Len(children) |-> <<"node", children[i]>>]
        \o [i \in 1..Len(missing) |-> <<" [MISSING]", missing[i]>>]
        \o [i \in 1..Len(remote) |-> <<" [REMOTE]", remote[i]>>]
        \o [i \in 1..Len(templates) |-> <<" [TEMPLATE]", templates[i]>>]

----------------------------------------------------------------------------
(* Coverage of the rendered tree *)

\* C28: every node in scope for to_ascii (every node with show_all, every
\* connected node otherwise) has at least one line in the rendered tree.
C28_EveryNodeInScopeDrawn ==
    pc.at = "ascii_done" =>
        \A n \in InScope : \E i \in NodeLines : out[i].node = n

----------------------------------------------------------------------------
(* Specification SpecMermaid: to_mermaid on graphs over files whose relative
   paths differ only in a separator, a dot, a hyphen or an underscore.  cli
   holds the arguments, out the lines of the flowchart. *)

\* d/b.json, d_b.json, d-b.json and a.yaml under the root
M_d_b == <<S_repo, <<"d", "_", "b", ".", "j", "s", "o", "n">>>>
M_dashb == <<S_repo, <<"d", "-", "b", ".", "j", "s", "o", "n">>>>
MermaidNodes == {P_a, F_db, M_d_b, M_dashb}

RECURSIVE MermaidEdgeSetsUpTo(_)
MermaidEdgeSetsUpTo(n) ==
    IF n = 0 THEN {{}}
    ELSE LET S == MermaidEdgeSetsUpTo(n - 1)
         IN  S \cup {s \cup {e} : s \in S, e \in MermaidNodes \X MermaidNodes}

InitMermaid ==
    /\ \E E \in MermaidEdgeSetsUpTo(MaxJsonEdges) : g = GraphOf(EmptyGraph, E)
    /\ cli \in {a \in ExportArgs : a.base = a.root /\ ~a.show_all}
    /\ ops = 0
    /\ pc = [at |-> "export", format |-> "none"]
    /\ fs = NoFs
    /\ todo = <<>>
    /\ scanned = <<>>
    /\ status = "none"
    /\ out = <<>>

NextMermaid == ExportMermaid

SpecMermaid == InitMermaid /\ [][NextMermaid]_vars

\* the lines that declare the files of the graph
FileDeclarations ==
    {i \in 1..Len(out) : /\ out[i].kind = "node"
                         /\ \E n \in g.nodes : out[i].text = RelStr(n, cli.root)}

\* C29: to_mermaid gives distinct graph nodes distinct identifiers: two
\* declarations of different files never carry the same identifier, so an edge
\* line denotes one source file and one target file.
C29_DistinctIdentifiers ==
    pc.at = "exported" =>
        \A i, j \in FileDeclarations : out[i].text # out[j].text => out[i].id # out[j].id

====
